---- MODULE Spec2Model ----
(***************************************************************************)
(* A model of the Raccoon lexer (compiler/lexer/lexer.rs).                 *)
(*                                                                         *)
(* The source text is a sequence of one-character strings.  The lexer      *)
(* state is the struct Lexer (cursor, indent_kind, indent_level,           *)
(* indent_size, token_buffer) plus the prev_is_error flag captured by the  *)
(* closure that Lexer::tokenize returns.  One step of the model is one     *)
(* pull from that iterator.                                                *)
(*                                                                         *)
(* The module also models the attribute macros #[backtrack] and #[memoize] *)
(* (macros/inner/src) as they expand in the example programs               *)
(* macros/examples: the state is the struct Test of the example, and one   *)
(* step is one call of its wrapped method or one assignment of `main`.     *)
(***************************************************************************)
EXTENDS Integers, Sequences, FiniteSets, TLC

VARIABLES
    code,           \* the characters handed to Lexer::tokenize
    cursor,         \* Lexer.cursor (also the position of Lexer.chars)
    indent_kind,    \* Lexer.indent_kind
    indent_level,   \* Lexer.indent_level
    indent_size,    \* Lexer.indent_size
    token_buffer,   \* Lexer.token_buffer
    prev_is_error,  \* the closure's flag in Lexer::tokenize
    yielded,        \* history: the Some(..) items the iterator has returned
    last,           \* history: what the most recent pull returned
    test,           \* the struct Test of a macro example (`let mut t`)
    calls           \* history: the calls of the wrapped method made so far

lexer_vars == <<code, cursor, indent_kind, indent_level, indent_size,
                token_buffer, prev_is_error, yielded, last>>

macro_vars == <<test, calls>>

vars == <<lexer_vars, macro_vars>>

-----------------------------------------------------------------------------
(* Bounds of the checked inputs.                                           *)

MaxLines == 4
MaxSpaces == 3
MaxChars == 5
MaxWide == 4
MaxBody == 5
MaxDigits == 4
MaxWord == 4
MaxLiteral == 4
MaxContinued == 5
MaxMantissa == 3
MaxExponent == 2
MaxPunct == 3
MaxBrackets == 4

-----------------------------------------------------------------------------
(* Characters.                                                             *)

\* Option<char>::None as returned by peek_char / eat_char
NoChar == ""

Lower == {"a","b","c","d","e","f","g","h","i","j","k","l","m",
          "n","o","p","q","r","s","t","u","v","w","x","y","z"}
Upper == {"A","B","C","D","E","F","G","H","I","J","K","L","M",
          "N","O","P","Q","R","S","T","U","V","W","X","Y","Z"}
Digit == {"0","1","2","3","4","5","6","7","8","9"}
NonZeroDigit == Digit \ {"0"}
BinDigit == {"0","1"}
OctDigit == {"0","1","2","3","4","5","6","7"}
HexLetter == {"a","b","c","d","e","f","A","B","C","D","E","F"}
HexDigit == Digit \cup HexLetter

\* mutant: digits do not continue a word
WordCharNoDigits == Lower \cup Upper \cup {"_"}

\* `Some('a'..='z' | 'A'..='Z' | '0'..='9' | '_')`
WordChar == Lower \cup Upper \cup Digit \cup {"_"}

-----------------------------------------------------------------------------
(* Items returned by a pull: Option<Result<Token>>.                        *)

Item(tag, kind, text, flavor, start, end) ==
    [tag |-> tag, kind |-> kind, text |-> text, flavor |-> flavor,
     start |-> start, end |-> end]

\* Token::new(kind, Span::new(start, end)) wrapped in Some(Ok(..))
Token(kind, text, flavor, start, end) == Item("Ok", kind, text, flavor, start, end)

\* LexerError::new(kind, Span::new(start, end)) wrapped in Some(Err(..))
LexerError(kind, start, end) == Item("Err", kind, "", "", start, end)

\* None: end of stream
None == Item("None", "", "", "", 0, 0)

\* a Rust panic (unwrap on None, division by zero, unreachable!)
Panic == Item("Panic", "", "", "", 0, 0)

\* the value of `last` before the first pull
NotPulled == Item("NotPulled", "", "", "", 0, 0)

-----------------------------------------------------------------------------
(* The struct Lexer and its cursor primitives.                             *)

Lexer == [cursor |-> cursor, indent_kind |-> indent_kind,
          indent_level |-> indent_level, indent_size |-> indent_size,
          token_buffer |-> token_buffer]

\* Lexer::new
NewLexer == [cursor |-> 0, indent_kind |-> "Unknown", indent_level |-> 0,
             indent_size |-> 0, token_buffer |-> <<>>]

\* the character at offset c of the input, NoChar past the end
CharAt(c) == IF c < Len(code) THEN code[c + 1] ELSE NoChar

\* mutant: the cursor is advanced even when no character is left
eat_char_unchecked(lx) == [lx EXCEPT !.cursor = @ + 1]

\* Lexer::eat_char: the cursor moves by one for `Some(_)`, not for `None`
eat_char(lx) == [lx EXCEPT !.cursor = IF @ < Len(code) THEN @ + 1 ELSE @]

peek_char(lx) == CharAt(lx.cursor)

\* peek_string(2) == format!("{q}{q}")
peek_string_is2(lx, q) == CharAt(lx.cursor) = q /\ CharAt(lx.cursor + 1) = q

\* peek_string(2) == "im"
peek_string_is_im(lx) == CharAt(lx.cursor) = "i" /\ CharAt(lx.cursor + 1) = "m"

\* a sub-recognizer's outcome: the item and the lexer it leaves behind
Out(item, lx) == [item |-> item, lx |-> lx]

-----------------------------------------------------------------------------
(* Integer arithmetic of the indentation engine (i32).                     *)

Abs(n) == IF n < 0 THEN -n ELSE n

\* Rust's % truncates toward zero: the sign follows the dividend
RustRem(a, b) == IF a >= 0 THEN a % b ELSE -((-a) % b)

\* impl From<char> for IndentKind
IndentKindFrom(ch) ==
    CASE ch = " " -> "Space"
      [] ch = "\t" -> "Tab"
      [] OTHER -> "Unknown"

\* `for _ in 1..n { token_buffer.push(tok) }`
RECURSIVE PushDedents(_, _, _)
PushDedents(buf, tok, n) ==
    IF n <= 1 THEN buf ELSE PushDedents(Append(buf, tok), tok, n - 1)

-----------------------------------------------------------------------------
(* The indentation engine: Lexer::tokenize_newline_or_indentation.         *)

\* the loop that counts the leading spaces and detects mixed space types
RECURSIVE count_spaces(_, _, _, _)
count_spaces(lx, prev_space, space_count, mixed_spaces) ==
    IF peek_char(lx) \in {" ", "\t"}
    THEN LET space == peek_char(lx)
         IN  count_spaces(eat_char(lx), space, space_count + 1,
                          mixed_spaces \/ (prev_space # NoChar /\ space # prev_space))
    ELSE [lx |-> lx, prev_space |-> prev_space, space_count |-> space_count,
          mixed_spaces |-> mixed_spaces]

\* `space_count > 0 && !matches!(peek_char, Some('\r') | Some('\n') | Some('#'))`
is_indentation_line(space_count, peek) ==
    space_count > 0 /\ peek \notin {"\r", "\n", "#"}

\* mutant: one Dedent too many (`0..n` for `1..n`)
dedent_count_one_more(indent_diff_abs, size) == indent_diff_abs \div size + 1

\* the number of Dedent tokens of a drop: `indent_diff_abs / self.indent_size`
dedent_count(indent_diff_abs, size) == indent_diff_abs \div size

\* mutant: the buffered Dedent gets an empty span at the cursor
buffered_dedent_at_cursor(start, end) == Token("Dedent", "", "", end, end)

\* the Dedent token that is pushed to the token buffer
buffered_dedent(start, end) == Token("Dedent", "", "", start, end)

\* mutant: the Dedents are buffered and returned but the level is not updated
emit_dedents_keeps_level(lx, space_count, indent_diff_abs, start) ==
    IF lx.indent_size = 0
    THEN Out(Panic, lx)
    ELSE Out(Token("Dedent", "", "", start, lx.cursor),
             [lx EXCEPT !.token_buffer =
                            PushDedents(@, buffered_dedent(start, lx.cursor),
                                        dedent_count(indent_diff_abs, lx.indent_size))])

\* the Ordering::Less arms: buffer all Dedents but one, set the level, return one
emit_dedents(lx, space_count, indent_diff_abs, start) ==
    IF lx.indent_size = 0
    THEN Out(Panic, lx)
    ELSE Out(Token("Dedent", "", "", start, lx.cursor),
             [lx EXCEPT !.token_buffer =
                            PushDedents(@, buffered_dedent(start, lx.cursor),
                                        dedent_count(indent_diff_abs, lx.indent_size)),
                        !.indent_level = space_count \div lx.indent_size])

\* mutant: Ordering::Equal is taken for a drop as well
eof_needs_dedent_or_equal(indent_diff) == indent_diff <= 0

\* at the end of the input: `match indent_diff.cmp(&0) { Ordering::Less => ..`
eof_needs_dedent(indent_diff) == indent_diff < 0

\* mutant: the first indentation sets the step but not the kind
emit_indent_keeps_kind(lx, space_count, indent_diff, space_kind, start) ==
    IF lx.indent_size = 0
    THEN Out(Token("Indent", "", "", start, lx.cursor),
             [lx EXCEPT !.indent_size = indent_diff,
                        !.indent_level = space_count \div indent_diff])
    ELSE IF lx.indent_size # indent_diff
    THEN Out(LexerError("MixedIndentSizes", start, lx.cursor), lx)
    ELSE Out(Token("Indent", "", "", start, lx.cursor),
             [lx EXCEPT !.indent_level = space_count \div lx.indent_size])

\* the Ordering::Greater arm
emit_indent(lx, space_count, indent_diff, space_kind, start) ==
    IF lx.indent_size = 0
    THEN Out(Token("Indent", "", "", start, lx.cursor),
             [lx EXCEPT !.indent_size = indent_diff,
                        !.indent_kind = space_kind,
                        !.indent_level = space_count \div indent_diff])
    ELSE IF lx.indent_size # indent_diff
    THEN Out(LexerError("MixedIndentSizes", start, lx.cursor), lx)
    ELSE Out(Token("Indent", "", "", start, lx.cursor),
             [lx EXCEPT !.indent_level = space_count \div lx.indent_size])

\* mutant: the kind of the leading whitespace is never compared
inconsistent_indent_never(indent_kind_set, space_kind) == FALSE

\* `self.indent_kind != IndentKind::Unknown && space_kind != self.indent_kind`
inconsistent_indent(indent_kind_set, space_kind) ==
    indent_kind_set # "Unknown" /\ space_kind # indent_kind_set

\* mutant: the line feed after a carriage return is a newline of its own
eat_windows_newline_never(lx, char) == lx

\* `if char == '\r' && self.peek_char() == Some('\n') { self.eat_char(); }`
eat_windows_newline(lx, char) ==
    IF char = "\r" /\ peek_char(lx) = "\n" THEN eat_char(lx) ELSE lx

tokenize_newline_or_indentation(lx0, char, start) ==
    LET lx1 == eat_windows_newline(lx0, char)
        sp == count_spaces(lx1, NoChar, 0, FALSE)
        lx == sp.lx
        space_count == sp.space_count
        prev_space_count == lx.indent_level * lx.indent_size
        indent_diff == space_count - prev_space_count
        indent_diff_abs == Abs(indent_diff)
        peek == peek_char(lx)
        space_kind == IndentKindFrom(sp.prev_space)
        newline == Out(Token("Newline", "", "", start, lx.cursor), lx)
    IN  IF is_indentation_line(space_count, peek)
        THEN IF sp.mixed_spaces
             THEN Out(LexerError("MixedSpaces", start, lx.cursor), lx)
             ELSE IF inconsistent_indent(lx.indent_kind, space_kind)
             THEN Out(LexerError("InconsistentIndent", start, lx.cursor), lx)
             ELSE IF indent_diff > 0
             THEN emit_indent(lx, space_count, indent_diff, space_kind, start)
             ELSE IF indent_diff < 0
             THEN IF lx.indent_size = 0
                  THEN Out(Panic, lx)
                  ELSE IF RustRem(indent_diff, lx.indent_size) # 0
                  THEN Out(LexerError("InconsistentDedent", start, lx.cursor), lx)
                  ELSE emit_dedents(lx, space_count, indent_diff_abs, start)
             ELSE newline
        ELSE IF peek = NoChar
        THEN IF eof_needs_dedent(indent_diff)
             THEN emit_dedents(lx, space_count, indent_diff_abs, start)
             ELSE newline
        ELSE newline

-----------------------------------------------------------------------------
(* Helper lexer functions returning Result<String>.                        *)

\* Ok(string) with the lexer left behind
StrOk(str, lx) == [ok |-> TRUE, str |-> str, item |-> None, lx |-> lx]

\* bail!(LexerError::new(kind, Span::new(start, self.cursor)))
StrErr(kind, start, lx) ==
    [ok |-> FALSE, str |-> "", item |-> LexerError(kind, start, lx.cursor), lx |-> lx]

\* the loop of lex_dec_digits
RECURSIVE lex_dec_digits_loop(_, _, _)
lex_dec_digits_loop(lx, digits, start) ==
    LET peek == peek_char(lx)
    IN  IF peek = "_"
        THEN LET lx1 == eat_char(lx)
             IN  IF peek_char(lx1) \notin Digit
                 THEN StrErr("InvalidCharacterAfterUnderscoreInDigitPart", start, lx1)
                 ELSE lex_dec_digits_loop(lx1, digits, start)
        ELSE IF peek \in Digit
        THEN lex_dec_digits_loop(eat_char(lx), digits \o peek, start)
        ELSE StrOk(digits, lx)

lex_dec_digits(lx, char, start) ==
    lex_dec_digits_loop(lx, IF char # "_" THEN char ELSE "", start)

\* the digit test applied to the character after an underscore
valid_after_underscore(base, peek) ==
    \/ base = "Bin" /\ peek \in BinDigit
    \/ base = "Oct" /\ peek \in OctDigit
    \/ base = "Hex" /\ peek \in HexDigit

\* the loop of lex_prefixed_digits
RECURSIVE lex_prefixed_digits_loop(_, _, _, _)
lex_prefixed_digits_loop(lx, digits, start, base) ==
    LET peek == peek_char(lx)
    IN  IF peek = "_"
        THEN LET lx1 == eat_char(lx)
             IN  IF ~valid_after_underscore(base, peek_char(lx1))
                 THEN StrErr("InvalidCharacterAfterUnderscoreInDigitPart", start, lx1)
                 ELSE lex_prefixed_digits_loop(lx1, digits, start, base)
        ELSE IF peek \in BinDigit
        THEN lex_prefixed_digits_loop(eat_char(lx), digits \o peek, start, base)
        ELSE IF peek \in OctDigit
        THEN IF base = "Bin"
             THEN StrErr("InvalidDigitInInteger", start, lx)
             ELSE lex_prefixed_digits_loop(eat_char(lx), digits \o peek, start, base)
        ELSE IF peek \in HexDigit
        THEN IF base \in {"Bin", "Oct"}
             THEN StrErr("InvalidDigitInInteger", start, lx)
             ELSE lex_prefixed_digits_loop(eat_char(lx), digits \o peek, start, base)
        ELSE StrOk(digits, lx)

lex_prefixed_digits(lx, char, start, base) ==
    lex_prefixed_digits_loop(lx, IF char # "_" THEN char ELSE "", start, base)

\* mutant: the sign is kept as written, none for none
exponent_sign_as_written(peek) == IF peek \in {"-", "+"} THEN peek ELSE ""

\* `if matches!(peek, Some('-' | '+')) { exponent.push(eat) } else { exponent.push('+') }`
exponent_sign(peek) == IF peek \in {"-", "+"} THEN peek ELSE "+"

\* Lexes `"e" ("+" | "-")? digit_part`, the marker already eaten
lex_float_exponent(lx, start) ==
    LET signed == peek_char(lx) \in {"-", "+"}
        exponent == "e" \o exponent_sign(peek_char(lx))
        lx1 == IF signed THEN eat_char(lx) ELSE lx
    IN  IF peek_char(lx1) \in Digit
        THEN LET d == lex_dec_digits(eat_char(lx1), peek_char(lx1), start)
             IN  IF d.ok THEN StrOk(exponent \o d.str, d.lx) ELSE d
        ELSE StrErr("MissingDigitPartInFloatExponent", start, lx1)

\* the marker that opens the optional exponent of a fraction
fraction_exponent_marker(peek) == peek = "e"

\* Lexes `"." digit_part exponent?`, the dot already eaten
lex_float_fraction(lx, start) ==
    IF peek_char(lx) \in Digit
    THEN LET d == lex_dec_digits(eat_char(lx), peek_char(lx), start)
         IN  IF ~d.ok
             THEN d
             ELSE IF fraction_exponent_marker(peek_char(d.lx))
             THEN LET e == lex_float_exponent(eat_char(d.lx), start)
                  IN  IF e.ok THEN StrOk("." \o d.str \o e.str, e.lx) ELSE e
             ELSE StrOk("." \o d.str, d.lx)
    ELSE StrErr("MissingDigitPartInFloatFraction", start, lx)

-----------------------------------------------------------------------------
(* Numeric tokenizers.                                                     *)

\* `if peek_string(2) == "im" { eat; eat; Imag(text) } else { <kind>(text) }`
imag_or(lx, kind, text, flavor, start) ==
    IF peek_string_is_im(lx)
    THEN LET lx2 == eat_char(eat_char(lx))
         IN  Out(Token("Imag", text, "", start, lx2.cursor), lx2)
    ELSE Out(Token(kind, text, flavor, start, lx.cursor), lx)

\* `match <Result<String>> { Ok(string) => Float|Imag(prefix + string), Err(err) => Err(err) }`
float_or_imag(r, prefix, start) ==
    IF r.ok THEN imag_or(r.lx, "Float", prefix \o r.str, "", start)
    ELSE Out(r.item, r.lx)

\* one arm of tokenize_prefixed_integer
prefixed_integer_arm(lx, start, base, first, missing) ==
    IF peek_char(lx) \in first
    THEN LET r == lex_prefixed_digits(eat_char(lx), peek_char(lx), start, base)
         IN  IF r.ok
             THEN Out(Token("Integer", r.str, base, start, r.lx.cursor), r.lx)
             ELSE Out(r.item, r.lx)
    ELSE Out(LexerError(missing, start, lx.cursor), lx)

\* Tokenizes integers that start with `0b | 0o | 0x`
tokenize_prefixed_integer(lx, char, start) ==
    CASE char \in {"b", "B"} ->
            prefixed_integer_arm(lx, start, "Bin", {"_"} \cup BinDigit,
                                 "MissingDigitPartInBinInteger")
      [] char \in {"o", "O"} ->
            prefixed_integer_arm(lx, start, "Oct", {"_"} \cup OctDigit,
                                 "MissingDigitPartInOctInteger")
      [] char \in {"x", "X"} ->
            prefixed_integer_arm(lx, start, "Hex", {"_"} \cup HexDigit,
                                 "MissingDigitPartInHexInteger")
      [] OTHER -> Out(Panic, lx)

\* the markers that open an exponent after a run of leading zeros
leading_zero_exponent_marker(peek) == peek = "e"

\* Tokenizes decimal integers or floats that start with `0`
RECURSIVE tokenize_leading_zero_dec_integer_or_float_or_im(_, _)
tokenize_leading_zero_dec_integer_or_float_or_im(lx, start) ==
    LET peek == peek_char(lx)
    IN  IF peek = "_"
        THEN LET lx1 == eat_char(lx)
             IN  IF peek_char(lx1) # "0"
                 THEN Out(LexerError("InvalidCharacterAfterUnderscoreInDigitPart",
                                     start, lx1.cursor), lx1)
                 ELSE tokenize_leading_zero_dec_integer_or_float_or_im(lx1, start)
        ELSE IF peek = "0"
        THEN tokenize_leading_zero_dec_integer_or_float_or_im(eat_char(lx), start)
        ELSE IF peek = "."
        THEN float_or_imag(lex_float_fraction(eat_char(lx), start), "0", start)
        ELSE IF leading_zero_exponent_marker(peek)
        THEN float_or_imag(lex_float_exponent(eat_char(lx), start), "0", start)
        ELSE IF peek \in NonZeroDigit
        THEN Out(LexerError("InvalidLeadingZeroInDecInteger", start, lx.cursor), lx)
        ELSE imag_or(lx, "Integer", "0", "Dec", start)

\* Tokenizes decimal integers or floats that start with `1-9`
RECURSIVE tokenize_leading_non_zero_dec_integer_or_float_or_im(_, _, _)
tokenize_leading_non_zero_dec_integer_or_float_or_im(lx, initial_string, start) ==
    LET peek == peek_char(lx)
    IN  IF peek = "_"
        THEN LET lx1 == eat_char(lx)
             IN  IF peek_char(lx1) \notin Digit
                 THEN Out(LexerError("InvalidCharacterAfterUnderscoreInDigitPart",
                                     start, lx1.cursor), lx1)
                 ELSE tokenize_leading_non_zero_dec_integer_or_float_or_im(
                          lx1, initial_string, start)
        ELSE IF peek \in Digit
        THEN tokenize_leading_non_zero_dec_integer_or_float_or_im(
                 eat_char(lx), initial_string \o peek, start)
        ELSE IF peek = "."
        THEN float_or_imag(lex_float_fraction(eat_char(lx), start), initial_string, start)
        ELSE IF peek \in {"e", "E"}
        THEN float_or_imag(lex_float_exponent(eat_char(lx), start), initial_string, start)
        ELSE imag_or(lx, "Integer", initial_string, "Dec", start)

\* the `'0'` arm of next_token, the zero already eaten
lex_zero(lx, start) ==
    LET peek == peek_char(lx)
    IN  IF peek \in {"x", "X", "b", "B", "o", "O"}
        THEN tokenize_prefixed_integer(eat_char(lx), peek, start)
        ELSE IF peek \in {"_", "0"}
        THEN LET lx1 == eat_char(lx)
             IN  IF peek = "_" /\ peek_char(lx1) # "0"
                 THEN Out(LexerError("InvalidCharacterAfterUnderscoreInDigitPart",
                                     start, lx1.cursor), lx1)
                 ELSE tokenize_leading_zero_dec_integer_or_float_or_im(lx1, start)
        ELSE IF peek \in NonZeroDigit
        THEN Out(LexerError("InvalidLeadingZeroInDecInteger", start, lx.cursor), lx)
        ELSE IF peek = "."
        THEN float_or_imag(lex_float_fraction(eat_char(lx), start), "0", start)
        ELSE IF peek \in {"e", "E"}
        THEN float_or_imag(lex_float_exponent(eat_char(lx), start), "0", start)
        ELSE imag_or(lx, "Integer", "0", "Dec", start)

\* the `'1'..='9'` arm of next_token, the digit `char` already eaten
lex_non_zero(lx, char, start) ==
    LET peek == peek_char(lx)
    IN  IF peek \in {"_"} \cup Digit
        THEN LET lx1 == eat_char(lx)
             IN  IF peek = "_" /\ peek_char(lx1) \notin Digit
                 THEN Out(LexerError("InvalidCharacterAfterUnderscoreInDigitPart",
                                     start, lx1.cursor), lx1)
                 ELSE tokenize_leading_non_zero_dec_integer_or_float_or_im(
                          lx1, IF peek = "_" THEN char ELSE char \o peek, start)
        ELSE IF peek = "."
        THEN float_or_imag(lex_float_fraction(eat_char(lx), start), char, start)
        ELSE IF peek \in {"e", "E"}
        THEN float_or_imag(lex_float_exponent(eat_char(lx), start), char, start)
        ELSE imag_or(lx, "Integer", char, "Dec", start)

\* the `'.'` arm of next_token, the dot already eaten
lex_dot(lx, start) ==
    IF peek_char(lx) \in Digit
    THEN float_or_imag(lex_float_fraction(lx, start), "0", start)
    ELSE Out(Token("Delim", "", "Dot", start, lx.cursor), lx)

-----------------------------------------------------------------------------
(* String recognizers.                                                     *)

\* stand-ins for characters outside ASCII: U+00B2, U+221A, U+00E9
NonAscii == {"SQUARE", "SQRT", "E_ACUTE"}

\* char::is_ascii
is_ascii(ch) == ch \notin NonAscii

\* after the closing delimiter of a literal that is not long, or whose closing
\* triple is complete: `self.eat_char(); self.eat_char();`
eat_after_delimiter(lx) == eat_char(eat_char(lx))

\* the arm `peek_char == char` of both string loops, the delimiter not yet eaten
close_delimiter(lx, char, start, long, string) ==
    LET lx1 == eat_char(lx)
    IN  IF long /\ ~peek_string_is2(lx1, char)
        THEN LET lx2 == IF peek_char(lx1) = char THEN eat_char(lx1) ELSE lx1
             IN  StrErr("UnterminatedString", start, lx2)
        ELSE StrOk(string, eat_after_delimiter(lx1))

\* `!long && matches!(peek_char, '\n' | '\r')`
newline_in_short(long, peek) == ~long /\ peek \in {"\n", "\r"}

\* the loop of lex_short_or_long_string
RECURSIVE lex_string_loop(_, _, _, _, _)
lex_string_loop(lx, char, start, long, string) ==
    LET peek == peek_char(lx)
    IN  IF peek = NoChar
        THEN StrErr("UnterminatedString", start, lx)
        ELSE IF peek = char
        THEN close_delimiter(lx, char, start, long, string)
        ELSE IF newline_in_short(long, peek)
        THEN StrErr("UnterminatedString", start, lx)
        ELSE lex_string_loop(eat_char(lx), char, start, long, string \o peek)

\* Lexes a short or long string, the opening quote already eaten
lex_short_or_long_string(lx, char, start, long) ==
    lex_string_loop(IF long THEN eat_char(eat_char(lx)) ELSE lx, char, start, long, "")

\* the loop of lex_short_or_long_bytes
RECURSIVE lex_bytes_loop(_, _, _, _, _)
lex_bytes_loop(lx, char, start, long, bytes) ==
    LET peek == peek_char(lx)
    IN  IF peek = NoChar
        THEN StrErr("UnterminatedString", start, lx)
        ELSE IF peek = char
        THEN close_delimiter(lx, char, start, long, bytes)
        ELSE IF newline_in_short(long, peek)
        THEN StrErr("UnterminatedString", start, lx)
        ELSE IF is_ascii(peek)
        THEN lex_bytes_loop(eat_char(lx), char, start, long, bytes \o peek)
        ELSE StrErr("InvalidCharacterInByteString", start, lx)

\* Lexes a short or long bytes, the opening quote already eaten
lex_short_or_long_bytes(lx, char, start, long) ==
    lex_bytes_loop(IF long THEN eat_char(eat_char(lx)) ELSE lx, char, start, long, "")

\* `match lex_..(char, start, peek_string(2) == qq) { Ok(s) => Token(kind(s, flavor)), .. }`
\* with the opening quote `char` already eaten; `bytes` selects the bytes lexer
string_token(lx, char, start, bytes, kind, flavor) ==
    LET long == peek_string_is2(lx, char)
        r == IF bytes THEN lex_short_or_long_bytes(lx, char, start, long)
             ELSE lex_short_or_long_string(lx, char, start, long)
    IN  IF r.ok THEN Out(Token(kind, r.str, flavor, start, r.lx.cursor), r.lx)
        ELSE Out(r.item, r.lx)

-----------------------------------------------------------------------------
(* Identifiers and keywords.                                               *)

\* impl TryFrom<&str> for Keyword
Keywords ==
    {"and", "as", "assert", "async", "await", "break", "class", "const",
     "continue", "def", "del", "elif", "else", "enum", "except", "false",
     "finally", "for", "from", "global", "if", "import", "in", "interface",
     "is", "lambda", "let", "macro", "match", "mut", "nonlocal", "not", "or",
     "pass", "ptr", "raise", "ref", "return", "true", "try", "typealias",
     "val", "var", "where", "while", "with", "yield"}

\* mutant: the last word of the table is missing
is_keyword_but_yield(initial_string) == initial_string \in Keywords \ {"yield"}

\* `Keyword::try_from(&*initial_string)` is Ok
is_keyword(initial_string) == initial_string \in Keywords

\* Tokenizes identifiers or keywords
RECURSIVE tokenize_identifier_or_keyword(_, _, _)
tokenize_identifier_or_keyword(lx, initial_string, start) ==
    IF peek_char(lx) \in WordChar
    THEN tokenize_identifier_or_keyword(eat_char(lx), initial_string \o peek_char(lx), start)
    ELSE Out(Token(IF is_keyword(initial_string) THEN "Keyword" ELSE "Identifier",
                   initial_string, "", start, lx.cursor), lx)

\* the arms shared by the prefix letters: a quote opens a literal, a word
\* character continues an identifier, anything else ends the identifier
prefixed(lx, prefix, start, bytes, kind, flavor) ==
    LET peek == peek_char(lx)
    IN  IF peek \in {"\"", "'"}
        THEN string_token(eat_char(lx), peek, start, bytes, kind, flavor)
        ELSE IF peek \in WordChar
        THEN tokenize_identifier_or_keyword(eat_char(lx), prefix \o peek, start)
        ELSE tokenize_identifier_or_keyword(lx, prefix, start)

\* the `'r'` arm of next_token, the letter already eaten
lex_r(lx, start) ==
    LET peek == peek_char(lx)
    IN  IF peek = "b"
        THEN prefixed(eat_char(lx), "rb", start, TRUE, "ByteStr", "RawBytes")
        ELSE IF peek = "f"
        THEN prefixed(eat_char(lx), "rf", start, TRUE, "Str", "RawFormat")
        ELSE prefixed(lx, "r", start, TRUE, "Str", "RawStr")

-----------------------------------------------------------------------------
(* Operators and delimiters.                                               *)

\* a token of `len' further characters: `self.eat_char()` len times, then
\* Token::new(kind(name), Span::new(start, self.cursor))
RECURSIVE eat_chars(_, _)
eat_chars(lx, n) == IF n = 0 THEN lx ELSE eat_chars(eat_char(lx), n - 1)

\* mutant: the further characters of the token are left in the input
punct_first_only(lx, more, kind, name, start) ==
    Out(Token(kind, "", name, start, lx.cursor), lx)

punct(lx, more, kind, name, start) ==
    LET lx1 == eat_chars(lx, more)
    IN  Out(Token(kind, "", name, start, lx1.cursor), lx1)

\* the punctuation arms of next_token, the first character `char` already eaten
lex_punctuation(lx, char, start) ==
    LET p1 == CharAt(lx.cursor)
        p2 == CharAt(lx.cursor + 1)
    IN  CASE char = "/" ->
                IF p1 = "/"
                THEN IF p2 = "=" THEN punct(lx, 2, "Delim", "IntDivAssign", start)
                     ELSE punct(lx, 1, "Op", "IntDiv", start)
                ELSE IF p1 = "=" THEN punct(lx, 1, "Delim", "DivAssign", start)
                ELSE punct(lx, 0, "Op", "Div", start)
          [] char = ">" ->
                IF p1 = ">"
                THEN IF p2 = "=" THEN punct(lx, 2, "Delim", "ShiftRAssign", start)
                     ELSE punct(lx, 1, "Op", "ShiftR", start)
                ELSE IF p1 = "=" THEN punct(lx, 1, "Op", "GreaterEq", start)
                ELSE punct(lx, 0, "Op", "Greater", start)
          [] char = "<" ->
                IF p1 = "<"
                THEN IF p2 = "=" THEN punct(lx, 2, "Delim", "ShiftLAssign", start)
                     ELSE punct(lx, 1, "Op", "ShiftL", start)
                ELSE IF p1 = "=" THEN punct(lx, 1, "Op", "LessEq", start)
                ELSE punct(lx, 0, "Op", "Less", start)
          [] char = "=" ->
                IF p1 = "=" THEN punct(lx, 1, "Op", "Eq", start)
                ELSE punct(lx, 0, "Delim", "Assign", start)
          [] char = "!" ->
                IF p1 = "=" THEN punct(lx, 1, "Op", "NotEq", start)
                ELSE Out(LexerError("InvalidOperator", start, lx.cursor), lx)
          [] char = "|" ->
                IF p1 = "=" THEN punct(lx, 1, "Delim", "BitOrAssign", start)
                ELSE punct(lx, 0, "Op", "BitOr", start)
          [] char = "-" ->
                IF p1 = "=" THEN punct(lx, 1, "Delim", "MinusAssign", start)
                ELSE IF p1 = ">" THEN punct(lx, 1, "Delim", "Arrow", start)
                ELSE punct(lx, 0, "Op", "Minus", start)
          [] char = "+" ->
                IF p1 = "=" THEN punct(lx, 1, "Delim", "PlusAssign", start)
                ELSE punct(lx, 0, "Op", "Plus", start)
          [] char = "*" ->
                IF p1 = "=" THEN punct(lx, 1, "Delim", "MulAssign", start)
                ELSE IF p1 = "*" THEN punct(lx, 1, "Op", "Pow", start)
                ELSE punct(lx, 0, "Op", "Mul", start)
          [] char = "^" ->
                IF p1 = "=" THEN punct(lx, 1, "Delim", "BitXorAssign", start)
                ELSE punct(lx, 0, "Op", "BitXor", start)
          [] char = "&" ->
                IF p1 = "=" THEN punct(lx, 1, "Delim", "BitAndAssign", start)
                ELSE punct(lx, 0, "Op", "BitAnd", start)
          [] char = "%" ->
                IF p1 = "=" THEN punct(lx, 1, "Delim", "ModAssign", start)
                ELSE punct(lx, 0, "Op", "Mod", start)
          [] char = "@" ->
                IF p1 = "=" THEN punct(lx, 1, "Delim", "AtAssign", start)
                ELSE punct(lx, 0, "Delim", "At", start)
          [] char = "~" -> punct(lx, 0, "Op", "BitNot", start)
          [] char = "SQUARE" -> punct(lx, 0, "Op", "Square", start)
          [] char = "SQRT" -> punct(lx, 0, "Op", "Sqrt", start)
          [] char = "{" -> punct(lx, 0, "Delim", "LBrace", start)
          [] char = "}" -> punct(lx, 0, "Delim", "RBrace", start)
          [] char = "(" -> punct(lx, 0, "Delim", "LParen", start)
          [] char = ")" -> punct(lx, 0, "Delim", "RParen", start)
          [] char = "[" -> punct(lx, 0, "Delim", "LBracket", start)
          [] char = "]" -> punct(lx, 0, "Delim", "RBracket", start)
          [] char = "," -> punct(lx, 0, "Delim", "Comma", start)
          [] char = ":" -> punct(lx, 0, "Delim", "Colon", start)
          [] char = ";" -> punct(lx, 0, "Delim", "SemiColon", start)
          [] OTHER -> Out(LexerError("InvalidCharacter", start, lx.cursor), lx)

-----------------------------------------------------------------------------
(* The dispatch loop: Lexer::next_token.                                   *)

\* mutant: the first character of the run sets the indentation kind
skip_horizontal_spaces_sets_kind(lx) ==
    [eat_char(lx) EXCEPT !.indent_kind = IndentKindFrom(peek_char(lx))]

\* `while matches!(self.peek_char(), Some(' ') | Some('\t')) { eat }`
RECURSIVE skip_horizontal_spaces(_)
skip_horizontal_spaces(lx) ==
    IF peek_char(lx) \in {" ", "\t"} THEN skip_horizontal_spaces(eat_char(lx)) ELSE lx

\* `while !matches!(self.peek_char(), Some('\r') | Some('\n') | None) { eat }`
RECURSIVE skip_comment(_)
skip_comment(lx) ==
    IF peek_char(lx) \notin {"\r", "\n", NoChar} THEN skip_comment(eat_char(lx)) ELSE lx

\* mutant: the line feed after a carriage return is left in the input
skip_line_continuation_cr_only(lx) == eat_char(lx)

\* the arms Some('\r') and Some('\n') of the backslash arm, the backslash
\* already eaten: eat the newline, and the line feed that follows a CR
skip_line_continuation(lx) ==
    LET lx1 == eat_char(lx)
    IN  IF peek_char(lx) = "\r" /\ peek_char(lx1) = "\n" THEN eat_char(lx1) ELSE lx1

\* mutant: the span starts one character early
token_start_early(lx) == lx.cursor - 2

\* the span start of the token whose first character was just eaten:
\* `let start = self.cursor - 1;`
token_start(lx) == lx.cursor - 1

\* the `while let Some(char) = self.eat_char()` loop
RECURSIVE next_token_loop(_)
next_token_loop(lx0) ==
    IF peek_char(lx0) = NoChar
    THEN Out(None, lx0)
    ELSE
    LET char == peek_char(lx0)
        lx == eat_char(lx0)
        start == token_start(lx)
        peek == peek_char(lx)
    IN  CASE char \in {" ", "\t"} -> next_token_loop(skip_horizontal_spaces(lx))
          [] char \in {"\r", "\n"} -> tokenize_newline_or_indentation(lx, char, start)
          [] char = "#" -> next_token_loop(skip_comment(lx))
          [] char = "\\" ->
                IF peek \in {"\r", "\n"}
                THEN next_token_loop(skip_line_continuation(lx))
                ELSE Out(LexerError("InvalidLineContinuationEscapeSequence",
                                    start, lx.cursor), lx)
          [] char \in {"'", "\""} -> string_token(lx, char, start, FALSE, "Str", "Str")
          [] char = "." -> lex_dot(lx, start)
          [] char = "0" -> lex_zero(lx, start)
          [] char \in NonZeroDigit -> lex_non_zero(lx, char, start)
          [] char = "f" -> prefixed(lx, "f", start, FALSE, "Str", "Format")
          [] char = "b" -> prefixed(lx, "b", start, TRUE, "ByteStr", "Bytes")
          [] char = "r" -> lex_r(lx, start)
          [] char \in (Lower \cup Upper \cup {"_"}) \ {"f", "b", "r"} ->
                tokenize_identifier_or_keyword(lx, char, start)
          [] OTHER -> lex_punctuation(lx, char, start)

\* `if let Some(token) = self.token_buffer.pop() { return Some(Ok(token)); }`
pop_token_buffer(lx) ==
    Out(lx.token_buffer[Len(lx.token_buffer)],
        [lx EXCEPT !.token_buffer = SubSeq(@, 1, Len(@) - 1)])

\* Lexer::next_token
next_token(lx) ==
    IF lx.token_buffer # <<>> THEN pop_token_buffer(lx) ELSE next_token_loop(lx)

-----------------------------------------------------------------------------
(* The iterator returned by Lexer::tokenize.                               *)

\* mutant: the closure never records the error
error_seen_never(item) == FALSE

\* what the closure remembers after `lexer.next_token()` returned `item`
error_seen(item) == item.tag = "Err"

\* the closure's bookkeeping around `lexer.next_token()` returning r
remember(r) == [item |-> r.item, lx |-> r.lx, prev_is_error |-> error_seen(r.item)]

\* the closure passed to iter::from_fn: [item, lx, prev_is_error]
from_fn(lx, prev) ==
    IF prev
    THEN [item |-> None, lx |-> lx, prev_is_error |-> prev]
    ELSE remember(next_token(lx))

\* the caller's view of one pull that returned r
Yield(r) ==
    /\ cursor' = r.lx.cursor
    /\ indent_kind' = r.lx.indent_kind
    /\ indent_level' = r.lx.indent_level
    /\ indent_size' = r.lx.indent_size
    /\ token_buffer' = r.lx.token_buffer
    /\ prev_is_error' = r.prev_is_error
    /\ last' = r.item
    /\ yielded' = IF r.item.tag = "None" THEN yielded ELSE Append(yielded, r.item)
    /\ UNCHANGED code
    /\ UNCHANGED macro_vars

\* one pull: Iterator::next on the value returned by Lexer::tokenize
Pull ==
    /\ last.tag # "Panic"
    /\ Yield(from_fn(Lexer, prev_is_error))

\* a program that lexes declares no struct Test
NoTest == [absent |-> TRUE]

\* the lexer right after `Lexer::tokenize(code)`
LexerStart(inputs) ==
    /\ code \in inputs
    /\ cursor = NewLexer.cursor
    /\ indent_kind = NewLexer.indent_kind
    /\ indent_level = NewLexer.indent_level
    /\ indent_size = NewLexer.indent_size
    /\ token_buffer = NewLexer.token_buffer
    /\ prev_is_error = FALSE
    /\ yielded = <<>>
    /\ last = NotPulled

\* the state right after `Lexer::tokenize(code)`
Start(inputs) ==
    /\ LexerStart(inputs)
    /\ test = NoTest
    /\ calls = <<>>

Next == Pull

-----------------------------------------------------------------------------
(* The inputs of Spec: up to MaxLines lines, each a line feed, a run of    *)
(* leading whitespace and a body.  Lines nest MaxSpaces blocks deep.       *)

RECURSIVE Repeat(_, _)
Repeat(ch, n) == IF n = 0 THEN <<>> ELSE <<ch>> \o Repeat(ch, n - 1)

Lines ==
    {<<"\n">> \o Repeat(" ", n) \o body : n \in 0..MaxSpaces, body \in {<<>>, <<"a">>}}
    \cup {<<"\n", "\t", "a">>}

RECURSIVE LineInputs(_)
LineInputs(n) ==
    IF n = 0 THEN {<<>>}
    ELSE LET shorter == LineInputs(n - 1)
         IN  shorter \cup {p \o l : p \in shorter, l \in Lines}

Init == Start(LineInputs(MaxLines))

Spec == Init /\ [][Next]_vars

-----------------------------------------------------------------------------
(* The inputs of SpecChars: every string of up to MaxChars characters over *)
(* the characters the indentation engine and the brackets tell apart.      *)

Alphabet == {"\n", "\r", " ", "\t", "#", "a", "(", ")"}

RECURSIVE CharInputs(_)
CharInputs(n) ==
    IF n = 0 THEN {<<>>}
    ELSE LET shorter == CharInputs(n - 1)
         IN  shorter \cup {p \o <<ch>> : p \in shorter, ch \in Alphabet}

InitChars == Start(CharInputs(MaxChars))

SpecChars == InitChars /\ [][Next]_vars

-----------------------------------------------------------------------------
(* The inputs of SpecWide: every string of up to MaxWide characters over   *)
(* one or two characters of each class the dispatch loop tells apart.      *)

WideAlphabet == {"\n", " ", "\t", "b", "e", "'", "0", "1", "_", ".", "\\", "!"}

RECURSIVE WideInputs(_)
WideInputs(n) ==
    IF n = 0 THEN {<<>>}
    ELSE LET shorter == WideInputs(n - 1)
         IN  shorter \cup {p \o <<ch>> : p \in shorter, ch \in WideAlphabet}

InitWide == Start(WideInputs(MaxWide))

SpecWide == InitWide /\ [][Next]_vars

-----------------------------------------------------------------------------
(* The inputs of SpecStrings: a string prefix, one or three opening quotes *)
(* and up to MaxBody further characters, among them quotes, a backslash,   *)
(* a line feed and a character outside ASCII.                              *)

StringPrefixes == {<<>>, <<"b">>, <<"f">>, <<"r">>, <<"r", "b">>, <<"r", "f">>}

StringOpenings == {<<"'">>, <<"'", "'", "'">>}

BodyAlphabet == {"a", "'", "\\", "\n", "E_ACUTE"}

RECURSIVE BodyInputs(_)
BodyInputs(n) ==
    IF n = 0 THEN {<<>>}
    ELSE LET shorter == BodyInputs(n - 1)
         IN  shorter \cup {p \o <<ch>> : p \in shorter, ch \in BodyAlphabet}

StringInputs(n) ==
    {p \o o \o b : p \in StringPrefixes, o \in StringOpenings, b \in BodyInputs(n)}

InitStrings == Start(StringInputs(MaxBody))

SpecStrings == InitStrings /\ [][Next]_vars

-----------------------------------------------------------------------------
(* The inputs of SpecNumbers: every string of up to MaxDigits characters   *)
(* over the characters that decimal literals are made of, and every base   *)
(* prefix followed by up to MaxDigits digits, letters and underscores.     *)

RECURSIVE InputsOver(_, _)
InputsOver(alphabet, n) ==
    IF n = 0 THEN {<<>>}
    ELSE LET shorter == InputsOver(alphabet, n - 1)
         IN  shorter \cup {p \o <<ch>> : p \in shorter, ch \in alphabet}

DecimalAlphabet == {"0", "1", "_", ".", "e", "E", "b", "i", "m"}

PrefixedAlphabet == {"0", "1", "2", "8", "a", "_"}

NumberInputs(n) ==
    InputsOver(DecimalAlphabet, n)
    \cup {<<"0", p>> \o d : p \in {"b", "o", "x"},
                           d \in InputsOver(PrefixedAlphabet, n)}

InitNumbers == Start(NumberInputs(MaxDigits))

SpecNumbers == InitNumbers /\ [][Next]_vars

-----------------------------------------------------------------------------
(* The inputs of SpecStripped: an input of SpecNumbers on the first line   *)
(* and the same characters without the underscores on the second line.     *)

RECURSIVE Strip(_)
Strip(chars) ==
    IF chars = <<>> THEN <<>>
    ELSE (IF Head(chars) = "_" THEN <<>> ELSE <<Head(chars)>>) \o Strip(Tail(chars))

StrippedInputs(n) == {x \o <<"\n">> \o Strip(x) \o <<"\n">> : x \in NumberInputs(n)}

InitStripped == Start(StrippedInputs(MaxDigits))

SpecStripped == InitStripped /\ [][Next]_vars

-----------------------------------------------------------------------------
(* The inputs of SpecLowered: an input of SpecNumbers on the first line    *)
(* and the same characters with every E in lower case on the second line.  *)

RECURSIVE LowerE(_)
LowerE(chars) ==
    IF chars = <<>> THEN <<>>
    ELSE <<IF Head(chars) = "E" THEN "e" ELSE Head(chars)>> \o LowerE(Tail(chars))

LoweredInputs(n) == {x \o <<"\n">> \o LowerE(x) \o <<"\n">> : x \in NumberInputs(n)}

InitLowered == Start(LoweredInputs(MaxDigits))

SpecLowered == InitLowered /\ [][Next]_vars

-----------------------------------------------------------------------------
(* The inputs of SpecWords: every word of up to MaxWord characters that    *)
(* starts with a letter or an underscore, over letters that open string    *)
(* prefixes and spell keywords, an uppercase letter, a digit and the       *)
(* underscore.                                                             *)

WordAlphabet == {"a", "b", "f", "r", "i", "s", "R", "_", "1"}

WordInputs(n) ==
    {<<first>> \o rest : first \in WordAlphabet \ Digit,
                         rest \in InputsOver(WordAlphabet, n - 1)}

InitWords == Start(WordInputs(MaxWord))

SpecWords == InitWords /\ [][Next]_vars

-----------------------------------------------------------------------------
(* The inputs of SpecLiterals: a string prefix, one or three opening       *)
(* quotes of either kind and up to MaxLiteral further characters, among    *)
(* them both quotes, a backslash, a line feed, a carriage return and a     *)
(* character outside ASCII.                                                *)

LiteralOpenings == {<<"'">>, <<"'", "'", "'">>, <<"\"">>, <<"\"", "\"", "\"">>}

LiteralAlphabet == {"a", "'", "\"", "\\", "\n", "\r", "E_ACUTE"}

LiteralInputs(n) ==
    {p \o o \o b : p \in StringPrefixes, o \in LiteralOpenings,
                   b \in InputsOver(LiteralAlphabet, n)}

InitLiterals == Start(LiteralInputs(MaxLiteral))

SpecLiterals == InitLiterals /\ [][Next]_vars

-----------------------------------------------------------------------------
(* The inputs of SpecContinued: nothing or a line that opens a block, then *)
(* up to MaxContinued characters among them a backslash, both newline      *)
(* characters, a space, a letter and the comment sign.                     *)

ContinuedAlphabet == {"\\", "\n", "\r", " ", "a", "#"}

ContinuedInputs(n) ==
    {block \o rest : block \in {<<>>, <<"\n", " ", "a">>},
                     rest \in InputsOver(ContinuedAlphabet, n)}

InitContinued == Start(ContinuedInputs(MaxContinued))

SpecContinued == InitContinued /\ [][Next]_vars

-----------------------------------------------------------------------------
(* The inputs of SpecExponents: up to MaxMantissa characters of a decimal  *)
(* mantissa, then nothing or an exponent marker of either case, an         *)
(* optional sign and up to MaxExponent digits and underscores, then        *)
(* nothing or the suffix im.                                               *)

ExponentInputs(n) ==
    {<<>>} \cup {<<marker>> \o sign \o digits :
                    marker \in {"e", "E"},
                    sign \in {<<>>, <<"+">>, <<"-">>},
                    digits \in InputsOver({"0", "1", "_"}, n)}

FloatInputs(m, n) ==
    {mantissa \o exponent \o suffix :
        mantissa \in InputsOver({"0", "1", "_", "."}, m),
        exponent \in ExponentInputs(n),
        suffix \in {<<>>, <<"i", "m">>}}

InitExponents == Start(FloatInputs(MaxMantissa, MaxExponent))

SpecExponents == InitExponents /\ [][Next]_vars

-----------------------------------------------------------------------------
(* The inputs of SpecPunct: any punctuation character, a letter or a       *)
(* space, then up to MaxPunct - 1 of the characters that compound          *)
(* operators are made of, a dot and a digit.                               *)

PunctFirst ==
    {"/", ">", "<", "=", "!", "|", "-", "+", "*", "^", "&", "%", "@", "~",
     "SQUARE", "SQRT", "{", "}", "(", ")", "[", "]", ",", ":", ";", ".", "a", " "}

PunctAlphabet == {"/", ">", "<", "=", "!", "-", "*", ".", "1"}

PunctInputs(n) ==
    {<<first>> \o rest : first \in PunctFirst,
                         rest \in InputsOver(PunctAlphabet, n - 1)}

InitPunct == Start(PunctInputs(MaxPunct))

SpecPunct == InitPunct /\ [][Next]_vars

-----------------------------------------------------------------------------
(* The inputs of SpecKeywords: each word of the keyword list, as it is,    *)
(* with its first letter in upper case, all in upper case, and with an     *)
(* underscore or a digit before or after it; alone, or followed by a       *)
(* space and a second word.                                                *)

KeywordWords ==
    {<<"a", "n", "d">>, <<"a", "s">>, <<"a", "s", "s", "e", "r", "t">>,
     <<"a", "s", "y", "n", "c">>, <<"a", "w", "a", "i", "t">>,
     <<"b", "r", "e", "a", "k">>, <<"c", "l", "a", "s", "s">>,
     <<"c", "o", "n", "s", "t">>,
     <<"c", "o", "n", "t", "i", "n", "u", "e">>, <<"d", "e", "f">>,
     <<"d", "e", "l">>, <<"e", "l", "i", "f">>, <<"e", "l", "s", "e">>,
     <<"e", "n", "u", "m">>, <<"e", "x", "c", "e", "p", "t">>,
     <<"f", "a", "l", "s", "e">>, <<"f", "i", "n", "a", "l", "l", "y">>,
     <<"f", "o", "r">>, <<"f", "r", "o", "m">>,
     <<"g", "l", "o", "b", "a", "l">>, <<"i", "f">>,
     <<"i", "m", "p", "o", "r", "t">>, <<"i", "n">>,
     <<"i", "n", "t", "e", "r", "f", "a", "c", "e">>, <<"i", "s">>,
     <<"l", "a", "m", "b", "d", "a">>, <<"l", "e", "t">>,
     <<"m", "a", "c", "r", "o">>, <<"m", "a", "t", "c", "h">>,
     <<"m", "u", "t">>, <<"n", "o", "n", "l", "o", "c", "a", "l">>,
     <<"n", "o", "t">>, <<"o", "r">>, <<"p", "a", "s", "s">>,
     <<"p", "t", "r">>, <<"r", "a", "i", "s", "e">>, <<"r", "e", "f">>,
     <<"r", "e", "t", "u", "r", "n">>, <<"t", "r", "u", "e">>,
     <<"t", "r", "y">>, <<"t", "y", "p", "e", "a", "l", "i", "a", "s">>,
     <<"v", "a", "l">>, <<"v", "a", "r">>, <<"w", "h", "e", "r", "e">>,
     <<"w", "h", "i", "l", "e">>, <<"w", "i", "t", "h">>,
     <<"y", "i", "e", "l", "d">>}

ToUpper ==
    ("a" :> "A") @@ ("b" :> "B") @@ ("c" :> "C") @@ ("d" :> "D")
    @@ ("e" :> "E") @@ ("f" :> "F") @@ ("g" :> "G") @@ ("h" :> "H")
    @@ ("i" :> "I") @@ ("k" :> "K") @@ ("l" :> "L") @@ ("m" :> "M")
    @@ ("n" :> "N") @@ ("o" :> "O") @@ ("p" :> "P") @@ ("r" :> "R")
    @@ ("s" :> "S") @@ ("t" :> "T") @@ ("u" :> "U") @@ ("v" :> "V")
    @@ ("w" :> "W") @@ ("x" :> "X") @@ ("y" :> "Y")

RECURSIVE AllUpper(_)
AllUpper(chars) ==
    IF chars = <<>> THEN <<>> ELSE <<ToUpper[Head(chars)]>> \o AllUpper(Tail(chars))

WordVariants(w) ==
    {w, <<ToUpper[Head(w)]>> \o Tail(w), AllUpper(w), w \o <<"_">>, w \o <<"1">>,
     <<"_">> \o w}

KeywordInputs ==
    {v \o rest : v \in UNION {WordVariants(w) : w \in KeywordWords},
                 rest \in {<<>>, <<" ", "a", "s">>, <<" ", "a", "s", "k">>}}

InitKeywords == Start(KeywordInputs)

SpecKeywords == InitKeywords /\ [][Next]_vars

-----------------------------------------------------------------------------
(* The inputs of SpecBrackets: every string of up to MaxBrackets           *)
(* characters over the six brackets and a letter.                          *)

BracketAlphabet == {"(", ")", "[", "]", "{", "}", "a"}

InitBrackets == Start(InputsOver(BracketAlphabet, MaxBrackets))

SpecBrackets == InitBrackets /\ [][Next]_vars

-----------------------------------------------------------------------------
(* The attribute macro #[backtrack(state = S)] (macros/inner/src/          *)
(* backtrack.rs) and the example macros/examples/backtrack.rs.             *)

\* Option<T>: None and Some(v)
OptNone == <<>>
Some(v) == <<v>>

\* the unit value ()
Unit == "()"

\* what a call leaves behind: the value returned, the struct after the call,
\* and (history) whether the body of the annotated function was executed
Returned(ret, t, ran) == [ret |-> ret, t |-> t, ran |-> ran]

\* the body of Test::save_even, which the macro keeps under the name
\* __backtrack_original_save_even
backtrack_original_save_even(t, x) ==
    LET t1 == [t EXCEPT !.value = x]
    IN  IF x % 2 = 0 THEN Returned(Some(Unit), t1, TRUE)
        ELSE Returned(OptNone, t1, TRUE)

\* mutant: the saved state is never put back
backtrack_never_restores(t, state, r) == r

\* the wrapper that generate_fn_wrapper emits: t is the struct before the
\* call, state the field S, r what the original function left behind
\*   let mut __backtrack_state = S.clone();
\*   original(..).or_else(|| { S = __backtrack_state; None })
backtrack(t, state, r) ==
    LET backtrack_state == t[state]
    IN  IF r.ret = OptNone
        THEN [r EXCEPT !.t = [r.t EXCEPT ![state] = backtrack_state]]
        ELSE r

\* Test::save_even after expansion
save_even(t, x) == backtrack(t, "value", backtrack_original_save_even(t, x))

\* history: one call of a wrapped method; `body` is the struct as the
\* original function left it, before the wrapper acted on it
CallRecord(fn, x, before, body, r) ==
    [fn |-> fn, x |-> x, before |-> before, body |-> body,
     after |-> r.t, ret |-> r.ret, ran |-> r.ran]

\* the caller's view of a call that left r behind
Called(fn, x, body, r) ==
    /\ test' = r.t
    /\ calls' = Append(calls, CallRecord(fn, x, test, body, r))
    /\ UNCHANGED lexer_vars

\* the number of calls of a run, and the arguments of save_even
MaxCalls == 5
MaxSaved == 4

\* `t.save_even(x);` in main
Call_save_even ==
    /\ Len(calls) < MaxCalls
    /\ \E x \in 1..MaxSaved :
          Called("save_even", x, backtrack_original_save_even(test, x).t,
                 save_even(test, x))

\* `let mut t = Test { value: 2 };`
InitBacktrack ==
    /\ LexerStart({<<>>})
    /\ test = [value |-> 2]
    /\ calls = <<>>

NextBacktrack == Call_save_even

SpecBacktrack == InitBacktrack /\ [][NextBacktrack]_vars

-----------------------------------------------------------------------------
(* The attribute macro #[memoize(cache = C, key_extension = K)]            *)
(* (macros/inner/src/memoize.rs), the cache it uses (macros/lib/src/       *)
(* cache.rs) and the example macros/examples/memoize.rs.                   *)

\* the capacity the cache is built with: `LruCache::new(NonZeroUsize::new(n))`
Capacity == 2

\* LruCache::new: no entry.  A cache is the sequence of its entries
\* [key, value], the least recently used one first.
NewCache == <<>>

\* the place of key's entry in the cache, 0 when it has none
Position(cache, key) ==
    IF \E i \in 1..Len(cache) : cache[i].key = key
    THEN CHOOSE i \in 1..Len(cache) : cache[i].key = key
    ELSE 0

\* the cache without its i-th entry
Without(cache, i) == SubSeq(cache, 1, i - 1) \o SubSeq(cache, i + 1, Len(cache))

\* mutant: a hit does not make the entry the most recently used one
get_keeps_order(cache, key) ==
    LET i == Position(cache, key)
    IN  IF i = 0 THEN [found |-> FALSE, value |-> OptNone, cache |-> cache]
        ELSE [found |-> TRUE, value |-> cache[i].value, cache |-> cache]

\* Cache::get, which is LruCache::get: the value of key's entry, which
\* becomes the most recently used one
get(cache, key) ==
    LET i == Position(cache, key)
    IN  IF i = 0 THEN [found |-> FALSE, value |-> OptNone, cache |-> cache]
        ELSE [found |-> TRUE, value |-> cache[i].value,
              cache |-> Append(Without(cache, i), cache[i])]

\* Cache::insert, which is LruCache::put: key's entry is written and becomes
\* the most recently used one; a new key in a full cache evicts the least
\* recently used entry
insert(cache, key, value) ==
    LET i == Position(cache, key)
        entry == [key |-> key, value |-> value]
    IN  IF i # 0 THEN Append(Without(cache, i), entry)
        ELSE IF Len(cache) >= Capacity THEN Append(Tail(cache), entry)
        ELSE Append(cache, entry)

\* `&format!("{:?}/{:?}/{:?}", fn_name_str, (x), key_extension)`: the name
\* in quotes, the argument and the key extension in decimal
hash_input(fn_name_str, x, key_extension) ==
    "\"" \o fn_name_str \o "\"/" \o ToString(x) \o "/" \o ToString(key_extension)

\* the 32-byte Sha3_256 digest of the input, taken as free of collisions:
\* the digest is represented by the text it was computed from
Sha3_256(input) == input

\* mutant: on a hit the cached value is returned but the function is called
\* all the same
memoize_calls_on_hit(t, key, r) ==
    LET got == get(t.cache, key)
    IN  IF got.found
        THEN Returned(got.value, [r.t EXCEPT !.cache = got.cache], r.ran)
        ELSE Returned(r.ret, [r.t EXCEPT !.cache = insert(@, key, r.ret)], r.ran)

\* the wrapper that generate_fn_wrapper emits: t is the struct before the
\* call, key the digest, r what the original function leaves behind when it
\* is called on t
\*   if let Some(value) = C.get(&key) { return value.clone(); }
\*   let value = original(..); C.insert(key, value.clone()); value
memoize(t, key, r) ==
    LET got == get(t.cache, key)
    IN  IF got.found
        THEN Returned(got.value, [t EXCEPT !.cache = got.cache], FALSE)
        ELSE Returned(r.ret, [r.t EXCEPT !.cache = insert(@, key, r.ret)], r.ran)

\* the body of Test::get_random, kept as __memoize_original_get_random;
\* random is the value that `random::<u32>()` draws (the sums of the checked
\* runs stay far below 2^32)
memoize_original_get_random(t, x, random) == Returned(x + random, t, TRUE)

\* Test::get_random after expansion
get_random(t, x, random) ==
    memoize(t, Sha3_256(hash_input("get_random", x, t.cursor)),
            memoize_original_get_random(t, x, random))

\* the arguments (one odd, one even), the values that random() draws and
\* the values that main assigns to the cursor
Args == {1, 2}
Randoms == {0, 1}
Cursors == {0, 1}

\* `t.get_random(x)` in main
Call_get_random ==
    /\ Len(calls) < MaxCalls
    /\ \E x \in Args, random \in Randoms :
          Called("get_random", x, memoize_original_get_random(test, x, random).t,
                 get_random(test, x, random))

\* `t.cursor = c;` in main
Set_cursor ==
    /\ \E c \in Cursors :
          /\ c # test.cursor
          /\ test' = [test EXCEPT !.cursor = c]
    /\ UNCHANGED calls
    /\ UNCHANGED lexer_vars

\* `let mut t = Test { cache: LruCache::new(..), cursor: 0 };`
InitMemoize ==
    /\ LexerStart({<<>>})
    /\ test = [cache |-> NewCache, cursor |-> 0]
    /\ calls = <<>>

NextMemoize == Call_get_random \/ Set_cursor

SpecMemoize == InitMemoize /\ [][NextMemoize]_vars

-----------------------------------------------------------------------------
(* #[memoize] written above #[backtrack]: macros/examples/                 *)
(* backtrack_memoize.rs.                                                   *)

\* the body of Test::check_even, kept as __memoize_original_check_even
memoize_original_check_even(t, x, random) ==
    LET t1 == [t EXCEPT !.cursor = @ + 1]
    IN  IF x % 2 = 0 THEN Returned(Some(x + random), t1, TRUE)
        ELSE Returned(OptNone, t1, TRUE)

\* #[memoize] is expanded first and hands the attributes that follow it,
\* here #[backtrack], to the wrapper it emits (`#(#fn_attrs)*`), not to the
\* original function: what #[backtrack] then keeps as
\* __backtrack_original_check_even is the memoize wrapper
backtrack_original_check_even(t, x, random) ==
    memoize(t, Sha3_256(hash_input("check_even", x, t.cursor)),
            memoize_original_check_even(t, x, random))

\* Test::check_even after both expansions
check_even(t, x, random) ==
    backtrack(t, "cursor", backtrack_original_check_even(t, x, random))

\* `t.check_even(x)` in main
Call_check_even ==
    /\ Len(calls) < MaxCalls
    /\ \E x \in Args, random \in Randoms :
          Called("check_even", x, memoize_original_check_even(test, x, random).t,
                 check_even(test, x, random))

\* `let mut t = Test { cache: LruCache::new(..), cursor: 0 };`
InitBacktrackMemoize ==
    /\ LexerStart({<<>>})
    /\ test = [cache |-> NewCache, cursor |-> 0]
    /\ calls = <<>>

NextBacktrackMemoize == Call_check_even \/ Set_cursor

SpecBacktrackMemoize == InitBacktrackMemoize /\ [][NextBacktrackMemoize]_vars

-----------------------------------------------------------------------------
(* Vocabulary of the properties.                                           *)

IsOk(item) == item.tag = "Ok"
IsErr(item) == item.tag = "Err"
IsEnd(item) == item.tag = "None"
IsKind(item, kind) == item.tag = "Ok" /\ item.kind = kind

ErrorYielded == \E i \in 1..Len(yielded) : IsErr(yielded[i])

\* the number of `kind` tokens among the first n yielded items
CountKind(kind, n) == Cardinality({i \in 1..n : IsKind(yielded[i], kind)})

IndentationErrors ==
    {"MixedSpaces", "InconsistentIndent", "MixedIndentSizes", "InconsistentDedent"}

\* the pull about to happen starts at a newline character of the input
AtNewline ==
    /\ ~prev_is_error
    /\ token_buffer = <<>>
    /\ CharAt(cursor) \in {"\n", "\r"}

\* the offset just after the newline sequence that starts at offset c
AfterNewline(c) ==
    IF CharAt(c) = "\r" /\ CharAt(c + 1) = "\n" THEN c + 2 ELSE c + 1

\* the length of the run of spaces and tabs that starts at offset c
RECURSIVE SpaceRun(_)
SpaceRun(c) == IF CharAt(c) \in {" ", "\t"} THEN 1 + SpaceRun(c + 1) ELSE 0

\* the leading-whitespace count of the line after the newline at offset c,
\* and the character that follows that whitespace
LineCount(c) == SpaceRun(AfterNewline(c))
LineFollower(c) == CharAt(AfterNewline(c) + LineCount(c))

\* that line is a logical line
LineIsLogical(c) == LineFollower(c) \notin {"\r", "\n", "#", NoChar}

\* its leading whitespace is made of one character, the established one if any
LineSpacesUniform(c) ==
    /\ \A i \in 0..(LineCount(c) - 1) :
          CharAt(AfterNewline(c) + i) = CharAt(AfterNewline(c))
    /\ indent_kind = "Unknown" \/ LineCount(c) = 0
          \/ IndentKindFrom(CharAt(AfterNewline(c))) = indent_kind

-----------------------------------------------------------------------------
(* C1 *)

\* C1: once the iterator has yielded an Err item, every later pull returns
\* end-of-stream: no item at all is yielded after the error.
C1_ErrorEndsStream ==
    [][ErrorYielded => (IsEnd(last') /\ yielded' = yielded)]_vars

\* an error was yielded with input left over, and a later pull returned None
C1_Witness ==
    /\ ErrorYielded
    /\ IsEnd(last)
    /\ cursor < Len(code)

-----------------------------------------------------------------------------
(* C2 *)

\* the items yielded so far are Ok tokens, except that the last may be an Err
OkThenOneErr ==
    /\ \A i \in 1..Len(yielded) : yielded[i].tag \in {"Ok", "Err"}
    /\ \A i \in 1..(Len(yielded) - 1) : IsOk(yielded[i])

\* C2: for every input no pull panics, the yielded items are Ok tokens
\* followed by at most one Err, which is then the last item, and the stream
\* ends after finitely many pulls: every pull returns an item or end-of-stream,
\* and there are never more items than characters consumed (a pull that
\* yields an item consumes a character or takes a Dedent announced by an
\* earlier Indent), so end-of-stream comes within Len(code) + 1 pulls.
C2_TerminatesOkThenOneErr ==
    /\ last.tag # "Panic"
    /\ OkThenOneErr
    /\ Len(yielded) + indent_level + Len(token_buffer) <= cursor
    /\ cursor <= Len(code)

\* the stream ended after Ok tokens followed by one Err
C2_Witness ==
    /\ IsEnd(last)
    /\ Len(yielded) >= 2
    /\ IsErr(yielded[Len(yielded)])

-----------------------------------------------------------------------------
(* C3 *)

\* C3 as stated: any two successive Ok tokens t1, t2, Dedents served from the
\* token buffer included, have t1.end <= t2.start <= t2.end.
C3_SuccessiveSpansDisjoint ==
    \A i \in 1..(Len(yielded) - 1) :
        (IsOk(yielded[i]) /\ IsOk(yielded[i + 1])) =>
            /\ yielded[i].end <= yielded[i + 1].start
            /\ yielded[i + 1].start <= yielded[i + 1].end

\* C3 amended: a token t2 that is lexed from the input starts at or after the
\* end of the token t1 yielded before it and has start <= end; a Dedent t2
\* served from the token buffer repeats the span of t1.
C3_SpansDisjointUnlessBuffered ==
    [][(IsOk(last) /\ IsOk(last')) =>
          /\ last'.start <= last'.end
          /\ IF token_buffer # <<>>
             THEN last'.start = last.start /\ last'.end = last.end
             ELSE last.end <= last'.start]_vars

\* a buffered Dedent was served and a token was lexed from the input after it
C3_Witness ==
    \E i \in 1..(Len(yielded) - 2) :
        /\ IsKind(yielded[i], "Dedent")
        /\ IsKind(yielded[i + 1], "Dedent")
        /\ yielded[i].start = yielded[i + 1].start
        /\ IsKind(yielded[i + 2], "Identifier")

-----------------------------------------------------------------------------
(* C4 *)

\* C4: in every prefix of the yielded stream there are at least as many
\* Indent tokens as Dedent tokens.
C4_DedentsNeverExceedIndents ==
    \A n \in 0..Len(yielded) : CountKind("Indent", n) >= CountKind("Dedent", n)

\* two blocks were opened and both closed again
C4_Witness ==
    /\ CountKind("Dedent", Len(yielded)) = 2
    /\ CountKind("Indent", Len(yielded)) = 2

-----------------------------------------------------------------------------
(* C5 *)

\* C5: when the stream of an input tokenized without error has ended, as many
\* Dedent tokens as Indent tokens have been yielded, whether or not the last
\* line ends with a newline.
C5_BalancedAtEnd ==
    (IsEnd(last) /\ ~ErrorYielded) =>
        CountKind("Indent", Len(yielded)) = CountKind("Dedent", Len(yielded))

-----------------------------------------------------------------------------
(* C6 *)

IsDelim(item, name) == IsKind(item, "Delim") /\ item.flavor = name

\* C6: no Indent and no Dedent token is yielded between an opening bracket
\* and the closing bracket that matches it.
C6_NoIndentInsideBrackets ==
    ~ \E i, j, k \in 1..Len(yielded) :
        /\ i < j /\ j < k
        /\ IsDelim(yielded[i], "LParen")
        /\ IsDelim(yielded[k], "RParen")
        /\ \A m \in (i + 1)..(k - 1) :
              ~IsDelim(yielded[m], "LParen") /\ ~IsDelim(yielded[m], "RParen")
        /\ yielded[j].kind \in {"Indent", "Dedent"}

-----------------------------------------------------------------------------
(* C7 *)

\* C7: a pull that starts at a newline followed by a logical line whose
\* leading-whitespace count is k * indent_size lower than that of the current
\* block (k >= 1, down to column 0 included) yields a Dedent and leaves k - 1
\* Dedents for the following pulls; a drop that is no multiple of indent_size
\* yields InconsistentDedent.
C7_DedentPerClosedBlock ==
    [][(/\ AtNewline
        /\ LineIsLogical(cursor)
        /\ LineSpacesUniform(cursor)
        /\ LineCount(cursor) < indent_level * indent_size) =>
          LET drop == indent_level * indent_size - LineCount(cursor)
          IN  IF drop % indent_size = 0
              THEN /\ IsKind(last', "Dedent")
                   /\ Len(token_buffer') = drop \div indent_size - 1
                   /\ \A i \in 1..Len(token_buffer') : IsKind(token_buffer'[i], "Dedent")
              ELSE IsErr(last') /\ last'.kind = "InconsistentDedent"]_vars

-----------------------------------------------------------------------------
(* C8 *)

\* C8: while Dedent tokens wait in the token buffer, a pull returns the one
\* enqueued first, which has the span of the Dedent returned by the pull that
\* buffered it, takes it out of the buffer and consumes no input character.
C8_BufferDrainsBeforeInput ==
    [][token_buffer # <<>> =>
          /\ last' = Head(token_buffer)
          /\ token_buffer' = Tail(token_buffer)
          /\ IsKind(last', "Dedent")
          /\ IsKind(last, "Dedent")
          /\ last'.start = last.start /\ last'.end = last.end
          /\ cursor' = cursor]_vars

\* one pull buffered two Dedents and the next two pulls have served them
C8_Witness ==
    /\ token_buffer = <<>>
    /\ Len(yielded) >= 3
    /\ \A i \in (Len(yielded) - 2)..Len(yielded) :
          /\ IsKind(yielded[i], "Dedent")
          /\ yielded[i].start = last.start

-----------------------------------------------------------------------------
(* C9 *)

\* C9: a pull that starts at a newline whose leading-whitespace run is
\* followed by CR, LF, '#' or the end of the input yields no Indent and no
\* indentation error, and leaves indent_kind and indent_size unchanged.
C9_BlankLinesDoNotIndent ==
    [][(AtNewline /\ ~LineIsLogical(cursor)) =>
          /\ ~IsKind(last', "Indent")
          /\ ~(IsErr(last') /\ last'.kind \in IndentationErrors)
          /\ indent_kind' = indent_kind
          /\ indent_size' = indent_size]_vars

-----------------------------------------------------------------------------
(* C10 *)

\* the offset of the newline that ends the line before the one ended at c,
\* -1 when that line is the first of the input
RECURSIVE NewlineBefore(_)
NewlineBefore(c) ==
    IF c = 0 THEN -1
    ELSE IF CharAt(c - 1) = "\n" \/ (CharAt(c - 1) = "\r" /\ CharAt(c) # "\n")
    THEN c - 1
    ELSE IF CharAt(c - 1) = "\r" THEN (IF c = 1 THEN -1 ELSE NewlineBefore(c - 1))
    ELSE NewlineBefore(c - 1)

\* the leading-whitespace count of the most recent logical line that ends at
\* or before the newline at offset c; 0 when there is none
RECURSIVE PrevLogicalCount(_)
PrevLogicalCount(c) ==
    LET b == NewlineBefore(c)
        first == IF b = -1 THEN 0 ELSE AfterNewline(b)
        n == SpaceRun(first)
    IN  IF CharAt(first + n) \notin {"\r", "\n", "#", NoChar}
        THEN n
        ELSE IF b = -1 THEN 0 ELSE PrevLogicalCount(b)

\* C10: once indent_size is set, a pull that starts at a newline followed by
\* a logical line yields Indent only if the line's leading-whitespace count
\* exceeds that of the most recent logical line by exactly indent_size, and
\* any other increase yields MixedIndentSizes.
C10_IndentByOneStepOnly ==
    [][(/\ AtNewline
        /\ indent_size # 0
        /\ LineIsLogical(cursor)
        /\ LineSpacesUniform(cursor)) =>
          LET increase == LineCount(cursor) - PrevLogicalCount(cursor)
          IN  /\ IsKind(last', "Indent") => increase = indent_size
              /\ (increase > 0 /\ increase # indent_size) =>
                    (IsErr(last') /\ last'.kind = "MixedIndentSizes")]_vars

-----------------------------------------------------------------------------
(* C11 *)

\* the leading whitespace of the line after the newline at offset c is not
\* empty and made only of the character `ch`
LineSpacesAre(c, ch) ==
    /\ LineCount(c) > 0
    /\ \A i \in 0..(LineCount(c) - 1) : CharAt(AfterNewline(c) + i) = ch

\* the whitespace character that indent_kind does not stand for
OtherSpace == IF indent_kind = "Space" THEN "\t" ELSE " "

\* C11: once an Indent has set indent_kind to Tab or Space, a pull that
\* starts at a newline followed by a line whose leading whitespace consists of
\* the other whitespace character and whose next character is not CR, LF or
\* '#' yields InconsistentIndent, and no Indent, Dedent or Newline.
C11_OtherWhitespaceIsInconsistent ==
    [][(/\ ~prev_is_error
        /\ token_buffer = <<>>
        /\ indent_kind # "Unknown"
        /\ CharAt(cursor) \in {"\n", "\r"}
        /\ LineSpacesAre(cursor, OtherSpace)
        /\ LineFollower(cursor) \notin {"\r", "\n", "#"}) =>
          /\ IsErr(last') /\ last'.kind = "InconsistentIndent"
          /\ yielded' = Append(yielded, last')]_vars

\* InconsistentIndent was yielded for a space-indented line after an Indent
\* had fixed the kind to Tab
C11_Witness ==
    /\ IsErr(last) /\ last.kind = "InconsistentIndent"
    /\ indent_kind = "Tab"
    /\ CountKind("Indent", Len(yielded)) >= 1

-----------------------------------------------------------------------------
(* C12 *)

Quotes == {"'", "\""}

\* the length of the string prefix at offset c (none, b, f, r, rb or rf) when
\* a quote follows it, -1 when no literal starts at c
PrefixLen(c) ==
    CASE CharAt(c) \in Quotes -> 0
      [] CharAt(c) \in {"b", "f", "r"} /\ CharAt(c + 1) \in Quotes -> 1
      [] CharAt(c) = "r" /\ CharAt(c + 1) \in {"b", "f"} /\ CharAt(c + 2) \in Quotes -> 2
      [] OTHER -> -1

\* the offset of the opening quote of the literal that starts at c
OpenQuote(c) == c + PrefixLen(c)

\* the literal whose opening quote is at offset o opens with three quotes
IsLongAt(o) == CharAt(o + 1) = CharAt(o) /\ CharAt(o + 2) = CharAt(o)

\* the first offset at or after q that holds `quote`, a newline or nothing
RECURSIVE ShortBodyEnd(_, _)
ShortBodyEnd(q, quote) ==
    IF CharAt(q) \in {quote, "\n", "\r", NoChar} THEN q ELSE ShortBodyEnd(q + 1, quote)

\* the characters at offsets from..(to - 1)
BodyChars(from, to) == {CharAt(i) : i \in from..(to - 1)}

\* a pull is about to lex, at the cursor, a short literal that is closed on
\* its line, with a body free of backslashes and of characters outside ASCII
AtClosedShortLiteral ==
    /\ ~prev_is_error
    /\ token_buffer = <<>>
    /\ PrefixLen(cursor) >= 0
    /\ ~IsLongAt(OpenQuote(cursor))
    /\ LET o == OpenQuote(cursor)
           q == ShortBodyEnd(o + 1, CharAt(o))
       IN  /\ CharAt(q) = CharAt(o)
           /\ BodyChars(o + 1, q) \cap ({"\\"} \cup NonAscii) = {}

\* the offset just after the closing quote of that literal
ShortLiteralEnd == ShortBodyEnd(OpenQuote(cursor) + 1, CharAt(OpenQuote(cursor))) + 1

\* C12: the token of a short string or byte-string literal, whatever its
\* prefix, that is closed on its own line ends immediately after the closing
\* delimiter, and the lexer has consumed nothing beyond it.
C12_ShortLiteralEndsAtDelimiter ==
    [][AtClosedShortLiteral =>
          /\ IsOk(last') /\ last'.kind \in {"Str", "ByteStr"}
          /\ last'.start = cursor
          /\ last'.end = ShortLiteralEnd
          /\ cursor' = ShortLiteralEnd]_vars

-----------------------------------------------------------------------------
(* C13 *)

\* the characters at offsets from..(to - 1) as one string
RECURSIVE Text(_, _)
Text(from, to) == IF from >= to THEN "" ELSE CharAt(from) \o Text(from + 1, to)

\* the first offset at or after q that holds a backslash, `quote`, a
\* newline or nothing
RECURSIVE PlainRunEnd(_, _)
PlainRunEnd(q, quote) ==
    IF CharAt(q) \in {"\\", quote, "\n", "\r", NoChar} THEN q
    ELSE PlainRunEnd(q + 1, quote)

\* the offset of the backslash of the first escaped delimiter in the short
\* literal at the cursor: plain characters, then a backslash and the quote
EscapeAt == PlainRunEnd(OpenQuote(cursor) + 1, CharAt(OpenQuote(cursor)))

\* the offset where plain characters after that escaped delimiter end
CloseAfterEscape == PlainRunEnd(EscapeAt + 2, CharAt(OpenQuote(cursor)))

\* a pull is about to lex, at the cursor, a short literal whose body is plain
\* characters, one escaped delimiter, plain characters, and which is then
\* closed by an unescaped delimiter
AtLiteralWithEscapedDelimiter ==
    /\ ~prev_is_error
    /\ token_buffer = <<>>
    /\ PrefixLen(cursor) >= 0
    /\ ~IsLongAt(OpenQuote(cursor))
    /\ CharAt(EscapeAt) = "\\"
    /\ CharAt(EscapeAt + 1) = CharAt(OpenQuote(cursor))
    /\ CharAt(CloseAfterEscape) = CharAt(OpenQuote(cursor))
    /\ BodyChars(OpenQuote(cursor) + 1, CloseAfterEscape) \cap NonAscii = {}

\* C13: a delimiter immediately preceded by a backslash does not close the
\* literal: the token's payload holds the backslash and the delimiter
\* verbatim and runs up to the next unescaped matching delimiter.
C13_EscapedDelimiterDoesNotClose ==
    [][AtLiteralWithEscapedDelimiter =>
          /\ IsOk(last') /\ last'.kind \in {"Str", "ByteStr"}
          /\ last'.text = Text(OpenQuote(cursor) + 1, CloseAfterEscape)]_vars

-----------------------------------------------------------------------------
(* C14 *)

\* the first offset at or after t where three consecutive `quote` characters
\* begin, Len(code) when there is none
RECURSIVE TripleAt(_, _)
TripleAt(t, quote) ==
    IF t >= Len(code) THEN Len(code)
    ELSE IF CharAt(t) = quote /\ CharAt(t + 1) = quote /\ CharAt(t + 2) = quote THEN t
    ELSE TripleAt(t + 1, quote)

\* the offset of the closing triple of the long literal at the cursor
ClosingTriple == TripleAt(OpenQuote(cursor) + 3, CharAt(OpenQuote(cursor)))

\* a pull is about to lex, at the cursor, a long literal that has a closing
\* triple, with a body free of backslashes and of characters outside ASCII
AtClosedLongLiteral ==
    /\ ~prev_is_error
    /\ token_buffer = <<>>
    /\ PrefixLen(cursor) >= 0
    /\ IsLongAt(OpenQuote(cursor))
    /\ ClosingTriple < Len(code)
    /\ BodyChars(OpenQuote(cursor) + 3, ClosingTriple) \cap ({"\\"} \cup NonAscii) = {}

\* C14: a long literal is closed only by three consecutive quote characters:
\* whenever the input holds a closing triple the pull yields the token whose
\* payload is everything before it, CR, LF and shorter runs of quotes
\* included, and no error; so UnterminatedString is left to the inputs that
\* end without a closing triple.
C14_LongLiteralClosedByTripleOnly ==
    [][AtClosedLongLiteral =>
          /\ IsOk(last') /\ last'.kind \in {"Str", "ByteStr"}
          /\ last'.text = Text(OpenQuote(cursor) + 3, ClosingTriple)]_vars

-----------------------------------------------------------------------------
(* C15 *)

\* the prefix of the literal at offset c contains the letter b
HasB(c) == "b" \in BodyChars(c, OpenQuote(c))

\* the offset of the first body character of the literal at offset c
BodyStart(c) == IF IsLongAt(OpenQuote(c)) THEN OpenQuote(c) + 3 ELSE OpenQuote(c) + 1

\* the first offset at or after q that holds `quote` or nothing, or, in a
\* short literal, a newline
RECURSIVE BodyStop(_, _, _)
BodyStop(q, quote, long) ==
    IF CharAt(q) \in {quote, NoChar} \/ (~long /\ CharAt(q) \in {"\n", "\r"}) THEN q
    ELSE BodyStop(q + 1, quote, long)

\* where the body of the literal at offset c first meets its delimiter, the
\* end of its line (short literals) or the end of the input
FirstStop(c) == BodyStop(BodyStart(c), CharAt(OpenQuote(c)), IsLongAt(OpenQuote(c)))

\* a character outside ASCII stands in the body of the literal at offset c
NonAsciiInBody(c) == BodyChars(BodyStart(c), FirstStop(c)) \cap NonAscii # {}

\* C15: a pull yields InvalidCharacterInByteString exactly when it lexes a
\* literal whose prefix contains b (b or rb) and whose body holds a
\* character outside ASCII; a closed short literal with prefix none, r, f or
\* rf and such a body yields a Str token.
C15_NonAsciiRejectedInBytesOnly ==
    [][(~prev_is_error /\ token_buffer = <<>> /\ PrefixLen(cursor) >= 0) =>
          /\ (IsErr(last') /\ last'.kind = "InvalidCharacterInByteString")
                <=> (HasB(cursor) /\ NonAsciiInBody(cursor))
          /\ (/\ ~HasB(cursor)
              /\ NonAsciiInBody(cursor)
              /\ ~IsLongAt(OpenQuote(cursor))
              /\ CharAt(FirstStop(cursor)) = CharAt(OpenQuote(cursor))) =>
                    IsKind(last', "Str")]_vars

-----------------------------------------------------------------------------
(* C16 *)

\* the digits of a base
DigitsOf(base) ==
    CASE base = "Bin" -> BinDigit
      [] base = "Oct" -> OctDigit
      [] base = "Hex" -> HexDigit
      [] OTHER -> Digit

\* the characters at offsets from..(to - 1), underscores left out, as one string
RECURSIVE DigitsText(_, _)
DigitsText(from, to) ==
    IF from >= to THEN ""
    ELSE (IF CharAt(from) = "_" THEN "" ELSE CharAt(from)) \o DigitsText(from + 1, to)

\* C16: every Integer token with base Bin, Oct or Hex has a payload that is
\* not empty and is made of the digits of its base that follow the prefix,
\* so a base prefix followed by no digit, or by an underscore alone, never
\* yields a token.
C16_PrefixedIntegerHasDigits ==
    \A i \in 1..Len(yielded) :
        (IsKind(yielded[i], "Integer") /\ yielded[i].flavor \in {"Bin", "Oct", "Hex"}) =>
            /\ yielded[i].text # ""
            /\ yielded[i].text = DigitsText(yielded[i].start + 2, yielded[i].end)
            /\ BodyChars(yielded[i].start + 2, yielded[i].end)
                  \subseteq DigitsOf(yielded[i].flavor) \cup {"_"}

-----------------------------------------------------------------------------
(* C17 *)

NumericKinds == {"Integer", "Float", "Imag"}

\* the base of a numeric token: that of an Integer, Dec for Float and Imag
BaseOf(item) == IF item.kind = "Integer" THEN item.flavor ELSE "Dec"

\* the base announced by the characters at offset c: 0b, 0o, 0x or decimal
BaseAt(c) ==
    IF CharAt(c) # "0" THEN "Dec"
    ELSE CASE CharAt(c + 1) \in {"b", "B"} -> "Bin"
           [] CharAt(c + 1) \in {"o", "O"} -> "Oct"
           [] CharAt(c + 1) \in {"x", "X"} -> "Hex"
           [] OTHER -> "Dec"

\* the offset of the first digit position of the literal at offset c
DigitRunStart(c) == IF BaseAt(c) = "Dec" THEN c ELSE c + 2

\* the digits that may continue the literal at offset c without an error of
\* another kind: after a leading zero of a decimal literal only zeros
RunDigits(c) ==
    IF BaseAt(c) = "Dec" /\ CharAt(c) = "0" THEN {"0"} ELSE DigitsOf(BaseAt(c))

\* the first offset at or after u that holds none of `digits`
RECURSIVE DigitRunEnd(_, _)
DigitRunEnd(u, digits) ==
    IF CharAt(u) \in digits THEN DigitRunEnd(u + 1, digits) ELSE u

\* the underscore at offset u has a digit of `base` on both sides
UnderscoreBetweenDigits(u, base) ==
    /\ u > 0
    /\ CharAt(u - 1) \in DigitsOf(base)
    /\ CharAt(u + 1) \in DigitsOf(base)

\* C17: in a numeric literal of any base an underscore is accepted only
\* between two digits of that base: every underscore inside the span of a
\* numeric token has such a digit on either side, and a pull whose literal
\* reaches, after its digits so far, an underscore that lacks one of them
\* yields InvalidCharacterAfterUnderscoreInDigitPart.
C17_UnderscoreOnlyBetweenDigits ==
    [][(~prev_is_error /\ token_buffer = <<>> /\ CharAt(cursor) \in Digit) =>
          LET base == BaseAt(cursor)
              u == DigitRunEnd(DigitRunStart(cursor), RunDigits(cursor))
          IN  /\ (IsOk(last') /\ last'.kind \in NumericKinds) =>
                    \A v \in last'.start..(last'.end - 1) :
                        CharAt(v) = "_" => UnderscoreBetweenDigits(v, BaseOf(last'))
              /\ (CharAt(u) = "_" /\ ~UnderscoreBetweenDigits(u, base)) =>
                    /\ IsErr(last')
                    /\ last'.kind = "InvalidCharacterAfterUnderscoreInDigitPart"]_vars

-----------------------------------------------------------------------------
(* C18 *)

\* the offset of the first line feed at or after c
RECURSIVE LineFeedFrom(_)
LineFeedFrom(c) == IF CharAt(c) \in {"\n", NoChar} THEN c ELSE LineFeedFrom(c + 1)

\* the offset where the second line of the input starts
SecondLine == LineFeedFrom(0) + 1

\* the first pull yielded a numeric token for the literal at offset 0
FirstTokenIsNumeric ==
    /\ Len(yielded) >= 1
    /\ IsOk(yielded[1])
    /\ yielded[1].kind \in NumericKinds
    /\ yielded[1].start = 0

\* C18: when the first pull on an input yields a numeric token, lexing the
\* same characters with all underscores removed yields a token of the same
\* kind, base and payload.  The input without underscores is the second
\* line of the inputs of SpecStripped: the token lexed at its start is
\* compared with the first token of the first line.
C18_StrippingUnderscoresKeepsToken ==
    [][(/\ ~prev_is_error
        /\ token_buffer = <<>>
        /\ cursor = SecondLine
        /\ FirstTokenIsNumeric) =>
          /\ IsOk(last')
          /\ last'.kind = yielded[1].kind
          /\ last'.flavor = yielded[1].flavor
          /\ last'.text = yielded[1].text]_vars

-----------------------------------------------------------------------------
(* C19 *)

\* C19: an exponent written with E is recognized wherever one written with
\* e is: when a line that differs from the first line of the input only in
\* the case of the exponent marker lexes as one Float token, the first line
\* has yielded one Float token with the same payload.  The line with
\* lowercase markers is the second line of the inputs of SpecLowered.
C19_UppercaseExponentRecognized ==
    [][(/\ ~prev_is_error
        /\ token_buffer = <<>>
        /\ cursor = SecondLine
        /\ Len(yielded) >= 1) =>
          ((IsKind(last', "Float") /\ last'.end = LineFeedFrom(SecondLine)) =>
              /\ IsKind(yielded[1], "Float")
              /\ yielded[1].start = 0
              /\ yielded[1].end = LineFeedFrom(0)
              /\ yielded[1].text = last'.text)]_vars

-----------------------------------------------------------------------------
(* C20 *)

\* the first offset at or after d that holds neither a digit of `base` nor
\* an underscore
RECURSIVE OffendingAt(_, _)
OffendingAt(d, base) ==
    IF CharAt(d) \in DigitsOf(base) \cup {"_"} THEN OffendingAt(d + 1, base) ELSE d

\* a pull is about to lex, at the cursor, a literal with prefix 0b or 0o in
\* which digits of the base, each underscore followed by such a digit, lead
\* up to a digit or hex letter outside the base's range
AtOutOfRangeDigit ==
    /\ ~prev_is_error
    /\ token_buffer = <<>>
    /\ BaseAt(cursor) \in {"Bin", "Oct"}
    /\ LET d == OffendingAt(cursor + 2, BaseAt(cursor))
       IN  /\ CharAt(d) \in HexDigit
           /\ \A v \in (cursor + 2)..(d - 1) :
                 CharAt(v) = "_" => CharAt(v + 1) \in DigitsOf(BaseAt(cursor))

\* C20: in a literal with prefix 0b or 0o a digit or hex letter outside the
\* base's range, at the first position after the prefix or at a later one,
\* yields InvalidDigitInInteger with a span from the literal's first
\* character to just before the offending digit.
C20_OutOfRangeDigitIsInvalidDigit ==
    [][AtOutOfRangeDigit =>
          /\ IsErr(last') /\ last'.kind = "InvalidDigitInInteger"
          /\ last'.start = cursor
          /\ last'.end = OffendingAt(cursor + 2, BaseAt(cursor))]_vars

-----------------------------------------------------------------------------
(* C21 *)

\* C21: an input that is a single word [A-Za-z_][A-Za-z0-9_]*, the words
\* that begin with f, b, r, rb or rf included, yields exactly one item: an Ok
\* token of kind Identifier or Keyword whose text is the whole word and whose
\* span is [0, length of the word).
C21_WordIsOneToken ==
    /\ Len(yielded) <= 1
    /\ last.tag \in {"NotPulled", "Ok", "None"}
    /\ IsEnd(last) => Len(yielded) = 1
    /\ Len(yielded) = 1 =>
          /\ IsOk(yielded[1])
          /\ yielded[1].kind \in {"Identifier", "Keyword"}
          /\ yielded[1].text = Text(0, Len(code))
          /\ yielded[1].start = 0
          /\ yielded[1].end = Len(code)

\* the stream of a word that opens with the prefix letters rb and goes on
\* with an underscore and a digit has ended after its one Identifier
C21_Witness ==
    /\ IsEnd(last)
    /\ Len(code) = 4
    /\ Text(0, 4) = "rb_1"
    /\ Len(yielded) = 1
    /\ IsKind(yielded[1], "Identifier")

-----------------------------------------------------------------------------
(* C22 *)

\* the token kind that the prefix of the literal at offset c stands for
LiteralKind(c) == IF HasB(c) THEN "ByteStr" ELSE "Str"

\* the flavor that the prefix of the literal at offset c stands for
LiteralFlavor(c) ==
    LET prefix == Text(c, OpenQuote(c))
    IN  CASE prefix = "" -> "Str"
          [] prefix = "r" -> "RawStr"
          [] prefix = "f" -> "Format"
          [] prefix = "rf" -> "RawFormat"
          [] prefix = "b" -> "Bytes"
          [] prefix = "rb" -> "RawBytes"

\* the first offset at or after q that holds `quote` not preceded by a
\* backslash, a newline or nothing
RECURSIVE UnescapedClose(_, _)
UnescapedClose(q, quote) ==
    IF \/ CharAt(q) \in {"\n", "\r", NoChar}
       \/ (CharAt(q) = quote /\ CharAt(q - 1) # "\\")
    THEN q
    ELSE UnescapedClose(q + 1, quote)

\* where the body of the literal at offset c ends: at the first triple of its
\* quote for a long literal, at the first unescaped quote for a short one
BodyEnd(c) ==
    IF IsLongAt(OpenQuote(c)) THEN TripleAt(BodyStart(c), CharAt(OpenQuote(c)))
    ELSE UnescapedClose(BodyStart(c), CharAt(OpenQuote(c)))

\* a pull is about to lex, at the cursor, a literal that is closed by its
\* delimiter and, with b in its prefix, has a body within ASCII
AtClosedLiteral ==
    /\ ~prev_is_error
    /\ token_buffer = <<>>
    /\ PrefixLen(cursor) >= 0
    /\ CharAt(BodyEnd(cursor)) = CharAt(OpenQuote(cursor))
    /\ HasB(cursor) => BodyChars(BodyStart(cursor), BodyEnd(cursor)) \cap NonAscii = {}

\* C22: the token of a string literal, with either quote character and in
\* short or long form, has the kind and flavor of its prefix alone - none
\* Str(Str), r Str(RawStr), f Str(Format), rf Str(RawFormat), b
\* ByteStr(Bytes), rb ByteStr(RawBytes) - and its payload is the body
\* between the delimiters, character for character.
C22_PrefixDecidesKindAndPayloadIsBody ==
    [][AtClosedLiteral =>
          /\ IsOk(last')
          /\ last'.kind = LiteralKind(cursor)
          /\ last'.flavor = LiteralFlavor(cursor)
          /\ last'.text = Text(BodyStart(cursor), BodyEnd(cursor))]_vars

-----------------------------------------------------------------------------
(* C23 *)

\* a pull is about to lex, at the cursor, a short literal whose body reaches
\* a CR, a LF or the end of the input before an unescaped closing delimiter
\* and, with b in its prefix, holds no character outside ASCII
AtUnterminatedShortLiteral ==
    /\ ~prev_is_error
    /\ token_buffer = <<>>
    /\ PrefixLen(cursor) >= 0
    /\ ~IsLongAt(OpenQuote(cursor))
    /\ CharAt(BodyEnd(cursor)) \in {"\n", "\r", NoChar}
    /\ HasB(cursor) => BodyChars(BodyStart(cursor), BodyEnd(cursor)) \cap NonAscii = {}

\* C23: a short string or byte string whose body reaches a CR, a LF or the
\* end of the input before its closing delimiter yields UnterminatedString
\* with a span from the first character of the literal, its prefix included,
\* to the offset of that CR or LF or to the end of the input, and the CR or
\* LF is not consumed.
C23_ShortLiteralUnterminatedAtLineEnd ==
    [][AtUnterminatedShortLiteral =>
          /\ IsErr(last') /\ last'.kind = "UnterminatedString"
          /\ last'.start = cursor
          /\ last'.end = BodyEnd(cursor)
          /\ cursor' = BodyEnd(cursor)]_vars

-----------------------------------------------------------------------------
(* C24 *)

StructuralKinds == {"Newline", "Indent", "Dedent"}

\* the offset of the first character after the mid-line whitespace at the
\* cursor
ContinuationAt == cursor + SpaceRun(cursor)

\* a pull is about to start at a backslash, or at whitespace that leads to a
\* backslash, that a CR or LF follows
AtLineContinuation ==
    /\ ~prev_is_error
    /\ token_buffer = <<>>
    /\ CharAt(ContinuationAt) = "\\"
    /\ CharAt(ContinuationAt + 1) \in {"\n", "\r"}

\* the offset of the first character of the physical line after that
\* continuation, and that of the first character after the whitespace that
\* line starts with
ContinuedLine == AfterNewline(ContinuationAt + 1)
ContinuedText == ContinuedLine + SpaceRun(ContinuedLine)

-----------------------------------------------------------------------------
(* C25 *)

\* the first offset at or after c that holds a CR, a LF or nothing
RECURSIVE LineEnd(_)
LineEnd(c) == IF CharAt(c) \in {"\n", "\r", NoChar} THEN c ELSE LineEnd(c + 1)

\* the offset of the character that a pull starting at offset c is decided
\* by: the first one after mid-line whitespace, comments and line
\* continuations
RECURSIVE DispatchAt(_)
DispatchAt(c) ==
    IF CharAt(c) \in {" ", "\t"} THEN DispatchAt(c + 1)
    ELSE IF CharAt(c) = "#" THEN DispatchAt(LineEnd(c))
    ELSE IF CharAt(c) = "\\" /\ CharAt(c + 1) \in {"\n", "\r"}
    THEN DispatchAt(AfterNewline(c + 1))
    ELSE c

\* C25 as stated: each newline sequence yields exactly one structural token,
\* so no two Newline, Indent or Dedent tokens of the stream belong to the
\* same newline sequence.
C25_OneStructuralTokenPerNewline ==
    \A i, j \in 1..Len(yielded) :
        (/\ i < j
         /\ IsOk(yielded[i]) /\ yielded[i].kind \in StructuralKinds
         /\ IsOk(yielded[j]) /\ yielded[j].kind \in StructuralKinds) =>
            yielded[i].start # yielded[j].start

\* C25 amended: a pull that comes to a newline sequence outside string
\* literals and line continuations yields exactly one item for it, a Newline,
\* Indent or Dedent token or an indentation error, whose span starts at the
\* sequence and covers it and the whitespace after it; a CR immediately
\* followed by LF is one sequence, while a lone CR, a lone LF and the two
\* characters of LF CR are each one.  The only further structural tokens of
\* that sequence are the Dedents with the same span that the pull leaves in
\* the token buffer, and a pull that lexes from the input yields a structural
\* token only for a newline sequence.
C25_OneItemPerNewlineSequence ==
    [][(~prev_is_error /\ token_buffer = <<>>) =>
          LET d == DispatchAt(cursor)
              e == AfterNewline(d) + SpaceRun(AfterNewline(d))
          IN  IF CharAt(d) \in {"\n", "\r"}
              THEN /\ last'.tag \in {"Ok", "Err"}
                   /\ IsOk(last') => last'.kind \in StructuralKinds
                   /\ IsErr(last') => last'.kind \in IndentationErrors
                   /\ last'.start = d
                   /\ last'.end = e
                   /\ cursor' = e
                   /\ yielded' = Append(yielded, last')
                   /\ \A i \in 1..Len(token_buffer') :
                         /\ IsKind(token_buffer'[i], "Dedent")
                         /\ token_buffer'[i].start = d
                         /\ token_buffer'[i].end = e
              ELSE /\ ~(IsOk(last') /\ last'.kind \in StructuralKinds)
                   /\ token_buffer' = <<>>]_vars

\* a lone LF and the CR LF after it were yielded as two Newline tokens, the
\* second one spanning both of its characters
C25_Witness ==
    /\ Text(0, 3) = "\n\r\n"
    /\ Len(yielded) >= 2
    /\ IsKind(yielded[1], "Newline")
    /\ yielded[1].start = 0 /\ yielded[1].end = 1
    /\ IsKind(yielded[2], "Newline")
    /\ yielded[2].start = 1 /\ yielded[2].end = 3

-----------------------------------------------------------------------------
(* C26 *)

\* the first offset in from..(to - 1) that holds an exponent marker, `to`
\* when there is none
RECURSIVE MarkerAt(_, _)
MarkerAt(from, to) ==
    IF from >= to THEN to
    ELSE IF CharAt(from) \in {"e", "E"} THEN from
    ELSE MarkerAt(from + 1, to)

\* the payloads a mantissa written at offsets from..(to - 1) may have: its
\* digits and dot from some offset on, underscores left out, possibly after
\* a 0 that stands for the zeros or the empty integer part before them
Mantissas(from, to) ==
    ({DigitsText(j, to) : j \in from..(to - 1)}
        \cup {"0" \o DigitsText(j, to) : j \in from..to}) \ {""}

\* the payload `text` of a Float or Imag token whose digits are written at
\* offsets from..(to - 1) has no exponent, or ends with e, a sign and the
\* digits of the exponent written in the source, the sign being + when the
\* source has none
ExponentCanonical(text, from, to) ==
    LET k == MarkerAt(from, to)
        digits == IF CharAt(k + 1) \in {"+", "-"} THEN k + 2 ELSE k + 1
        sign == IF CharAt(k + 1) \in {"+", "-"} THEN CharAt(k + 1) ELSE "+"
    IN  IF k >= to
        THEN text \in Mantissas(from, to)
        ELSE /\ digits < to
             /\ CharAt(digits) \in Digit
             /\ BodyChars(digits, to) \subseteq Digit \cup {"_"}
             /\ \E m \in Mantissas(from, k) :
                   text = m \o "e" \o sign \o DigitsText(digits, to)

\* C26: every Float or Imag payload that has an exponent holds the lowercase
\* marker e, then + or -, then at least one digit, whether or not the source
\* has a sign and whichever case its marker has; an exponent written
\* without a sign has the sign +.
C26_ExponentHasExplicitSign ==
    \A i \in 1..Len(yielded) :
        (IsOk(yielded[i]) /\ yielded[i].kind \in {"Float", "Imag"}) =>
            ExponentCanonical(yielded[i].text, yielded[i].start,
                              IF yielded[i].kind = "Imag" THEN yielded[i].end - 2
                              ELSE yielded[i].end)

\* the source 1E1, with an uppercase marker and no sign, was yielded as a
\* Float with payload 1e+1
C26_Witness ==
    /\ Len(yielded) >= 1
    /\ IsKind(yielded[1], "Float")
    /\ yielded[1].start = 0 /\ yielded[1].end = 3
    /\ Text(0, 3) = "1E1"
    /\ yielded[1].text = "1e+1"

-----------------------------------------------------------------------------
(* C27 *)

\* the first offset at or after z that holds neither a zero nor an underscore
RECURSIVE ZeroRunEnd(_)
ZeroRunEnd(z) == IF CharAt(z) \in {"0", "_"} THEN ZeroRunEnd(z + 1) ELSE z

\* a pull is about to lex, at the cursor, a decimal literal that starts with
\* 0 and goes on with zeros, each underscore standing between two digits,
\* up to a digit 1-9
AtLeadingZeroBeforeDigit ==
    /\ ~prev_is_error
    /\ token_buffer = <<>>
    /\ CharAt(cursor) = "0"
    /\ CharAt(ZeroRunEnd(cursor)) \in NonZeroDigit
    /\ \A v \in cursor..(ZeroRunEnd(cursor) - 1) :
          CharAt(v) = "_" => UnderscoreBetweenDigits(v, "Dec")

\* C27: a decimal literal that starts with 0 and in which a digit 1-9 comes
\* before any fraction or exponent yields InvalidLeadingZeroInDecInteger,
\* whether that digit directly follows the zeros or an underscore stands
\* between them.
C27_LeadingZeroBeforeDigitIsError ==
    [][AtLeadingZeroBeforeDigit =>
          (IsErr(last') /\ last'.kind = "InvalidLeadingZeroInDecInteger")]_vars

-----------------------------------------------------------------------------
(* C28 *)

\* the fixed table of operators and delimiters: characters, kind, name
OperatorTable ==
    {<<<<"+">>, "Op", "Plus">>, <<<<"-">>, "Op", "Minus">>,
     <<<<"*">>, "Op", "Mul">>, <<<<"/">>, "Op", "Div">>,
     <<<<"/", "/">>, "Op", "IntDiv">>, <<<<"%">>, "Op", "Mod">>,
     <<<<"<", "<">>, "Op", "ShiftL">>, <<<<">", ">">>, "Op", "ShiftR">>,
     <<<<"&">>, "Op", "BitAnd">>, <<<<"|">>, "Op", "BitOr">>,
     <<<<"^">>, "Op", "BitXor">>, <<<<"~">>, "Op", "BitNot">>,
     <<<<"<">>, "Op", "Less">>, <<<<">">>, "Op", "Greater">>,
     <<<<"<", "=">>, "Op", "LessEq">>, <<<<">", "=">>, "Op", "GreaterEq">>,
     <<<<"=", "=">>, "Op", "Eq">>, <<<<"!", "=">>, "Op", "NotEq">>,
     <<<<"*", "*">>, "Op", "Pow">>,
     <<<<"SQUARE">>, "Op", "Square">>, <<<<"SQRT">>, "Op", "Sqrt">>}

DelimiterTable ==
    {<<<<"(">>, "Delim", "LParen">>, <<<<")">>, "Delim", "RParen">>,
     <<<<"[">>, "Delim", "LBracket">>, <<<<"]">>, "Delim", "RBracket">>,
     <<<<"{">>, "Delim", "LBrace">>, <<<<"}">>, "Delim", "RBrace">>,
     <<<<",">>, "Delim", "Comma">>, <<<<":">>, "Delim", "Colon">>,
     <<<<".">>, "Delim", "Dot">>, <<<<";">>, "Delim", "SemiColon">>,
     <<<<"@">>, "Delim", "At">>, <<<<"=">>, "Delim", "Assign">>,
     <<<<"-", ">">>, "Delim", "Arrow">>,
     <<<<"+", "=">>, "Delim", "PlusAssign">>, <<<<"-", "=">>, "Delim", "MinusAssign">>,
     <<<<"*", "=">>, "Delim", "MulAssign">>, <<<<"/", "=">>, "Delim", "DivAssign">>,
     <<<<"/", "/", "=">>, "Delim", "IntDivAssign">>,
     <<<<"%", "=">>, "Delim", "ModAssign">>, <<<<"@", "=">>, "Delim", "AtAssign">>,
     <<<<"&", "=">>, "Delim", "BitAndAssign">>, <<<<"|", "=">>, "Delim", "BitOrAssign">>,
     <<<<"^", "=">>, "Delim", "BitXorAssign">>,
     <<<<">", ">", "=">>, "Delim", "ShiftRAssign">>,
     <<<<"<", "<", "=">>, "Delim", "ShiftLAssign">>}

PunctTable == OperatorTable \cup DelimiterTable

\* the characters that table entries start with
PunctuationChars == {entry[1][1] : entry \in PunctTable}

\* the entries of the table that the input holds at offset c
EntriesAt(c) ==
    {entry \in PunctTable : \A i \in 1..Len(entry[1]) : CharAt(c + i - 1) = entry[1][i]}

\* the longest of a non-empty set of entries
LongestOf(entries) ==
    CHOOSE entry \in entries : \A other \in entries : Len(other[1]) <= Len(entry[1])

\* the token of the table entry `entry` lexed at offset d
EntryToken(entry, d) == Token(entry[2], "", entry[3], d, d + Len(entry[1]))

\* C28: a pull that comes to a punctuation character, a dot before a digit
\* aside (it opens a float), yields the token of the longest table entry
\* that the remaining input starts with, spanning exactly that entry, so
\* //=, >>=, <<=, ->, ** and != are single tokens; a ! that no = follows
\* is in no entry and yields InvalidOperator.
C28_LongestTableEntryWins ==
    [][(/\ ~prev_is_error
        /\ token_buffer = <<>>
        /\ CharAt(DispatchAt(cursor)) \in PunctuationChars
        /\ ~(CharAt(DispatchAt(cursor)) = "." /\ CharAt(DispatchAt(cursor) + 1) \in Digit)) =>
          LET d == DispatchAt(cursor)
          IN  IF EntriesAt(d) = {}
              THEN /\ CharAt(d) = "!"
                   /\ last' = LexerError("InvalidOperator", d, d + 1)
              ELSE /\ last' = EntryToken(LongestOf(EntriesAt(d)), d)
                   /\ cursor' = last'.end]_vars

\* the input //= was yielded as the one token IntDivAssign
C28_Witness ==
    /\ Text(0, 3) = "//="
    /\ Len(yielded) = 1
    /\ IsDelim(yielded[1], "IntDivAssign")
    /\ yielded[1].start = 0 /\ yielded[1].end = 3
    /\ IsEnd(last)

-----------------------------------------------------------------------------
(* C29 *)

\* the words of the closed keyword set
KeywordSet ==
    {"and", "as", "assert", "async", "await", "break", "class", "const",
     "continue", "def", "del", "elif", "else", "enum", "except", "false",
     "finally", "for", "from", "global", "if", "import", "in",
     "interface", "is", "lambda", "let", "macro", "match", "mut",
     "nonlocal", "not", "or", "pass", "ptr", "raise", "ref", "return",
     "true", "try", "typealias", "val", "var", "where", "while", "with",
     "yield"}

\* the first offset at or after c that holds no word character
RECURSIVE WordEnd(_)
WordEnd(c) ==
    IF CharAt(c) \in Lower \cup Upper \cup Digit \cup {"_"} THEN WordEnd(c + 1) ELSE c

\* a pull is about to come to a letter or an underscore that opens no string
\* literal
AtWord ==
    /\ ~prev_is_error
    /\ token_buffer = <<>>
    /\ CharAt(DispatchAt(cursor)) \in Lower \cup Upper \cup {"_"}
    /\ PrefixLen(DispatchAt(cursor)) = -1

\* the word that starts at offset d is yielded as Keyword exactly when it
\* is, case-sensitively, in the keyword set, and as Identifier otherwise, with
\* the word as text and as span
WordClassified(item, d) ==
    LET word == Text(d, WordEnd(d))
    IN  item = Token(IF word \in KeywordSet THEN "Keyword" ELSE "Identifier",
                     word, "", d, WordEnd(d))

\* C29 as stated: a maximal word over [A-Za-z0-9_] that starts with a letter
\* or an underscore is yielded as Keyword exactly when it is one of the 48
\* words of the closed keyword set, and as Identifier with the word as text
\* otherwise.
C29_KeywordIffOneOf48 ==
    /\ Cardinality(KeywordSet) = 48
    /\ [][AtWord => WordClassified(last', DispatchAt(cursor))]_vars

\* C29 amended: the closed keyword set has 47 words, and a maximal word is
\* yielded as Keyword exactly when it is, case-sensitively, one of them, and
\* as Identifier with the word as text otherwise.
C29_KeywordIffOneOf47 ==
    /\ Cardinality(KeywordSet) = 47
    /\ [][AtWord => WordClassified(last', DispatchAt(cursor))]_vars

\* yield was yielded as Keyword and, on another input, its capitalized form
\* as Identifier: here the former, followed by the keyword as
C29_Witness ==
    /\ Text(0, 8) = "yield as"
    /\ Len(yielded) = 2
    /\ IsKind(yielded[1], "Keyword") /\ yielded[1].text = "yield"
    /\ IsKind(yielded[2], "Keyword") /\ yielded[2].text = "as"
    /\ IsEnd(last)

-----------------------------------------------------------------------------
(* C30 *)

OpeningNames == {"LParen", "LBracket", "LBrace"}

\* the name of the opening bracket that the closing character ch matches
OpenerOf(ch) ==
    CASE ch = ")" -> "LParen"
      [] ch = "]" -> "LBracket"
      [] ch = "}" -> "LBrace"

\* the name of the opening bracket that the closing delimiter `name` matches
OpenerOfName(name) ==
    CASE name = "RParen" -> "LParen"
      [] name = "RBracket" -> "LBracket"
      [] name = "RBrace" -> "LBrace"

\* the names of the brackets that are open after the first n yielded items,
\* the most recently opened one last
RECURSIVE OpenBrackets(_)
OpenBrackets(n) ==
    IF n = 0 THEN <<>>
    ELSE LET before == OpenBrackets(n - 1)
             item == yielded[n]
         IN  IF IsKind(item, "Delim") /\ item.flavor \in OpeningNames
             THEN Append(before, item.flavor)
             ELSE IF /\ IsKind(item, "Delim")
                     /\ item.flavor \in {"RParen", "RBracket", "RBrace"}
                     /\ before # <<>>
                     /\ before[Len(before)] = OpenerOfName(item.flavor)
             THEN SubSeq(before, 1, Len(before) - 1)
             ELSE before

\* a pull is about to come to a closing bracket while no bracket is open or
\* the most recently opened, still open bracket is of another kind
AtUnmatchedClosingBracket ==
    /\ ~prev_is_error
    /\ token_buffer = <<>>
    /\ CharAt(DispatchAt(cursor)) \in {")", "]", "}"}
    /\ LET open == OpenBrackets(Len(yielded))
       IN  \/ open = <<>>
           \/ open[Len(open)] # OpenerOf(CharAt(DispatchAt(cursor)))

\* C30: a closing bracket that does not match the most recently opened,
\* still open bracket, or that comes when no bracket is open, yields an error
\* item and no Delimiter token.
C30_UnmatchedClosingBracketIsError ==
    [][AtUnmatchedClosingBracket => IsErr(last')]_vars

-----------------------------------------------------------------------------
(* C31 *)

\* the opening-bracket tokens that are still open after the first n yielded
\* items, the most recently opened one last
RECURSIVE OpenBracketTokens(_)
OpenBracketTokens(n) ==
    IF n = 0 THEN <<>>
    ELSE LET before == OpenBracketTokens(n - 1)
             item == yielded[n]
         IN  IF IsKind(item, "Delim") /\ item.flavor \in OpeningNames
             THEN Append(before, item)
             ELSE IF /\ IsKind(item, "Delim")
                     /\ item.flavor \in {"RParen", "RBracket", "RBrace"}
                     /\ before # <<>>
                     /\ before[Len(before)].flavor = OpenerOfName(item.flavor)
             THEN SubSeq(before, 1, Len(before) - 1)
             ELSE before

\* the first offset of the line that holds offset p
LineStart(p) ==
    LET b == NewlineBefore(p) IN IF b = -1 THEN 0 ELSE AfterNewline(b)

\* the whitespace count in force where the innermost open bracket was
\* opened: the leading-whitespace count of the line that holds it
BracketSpaceCount ==
    LET open == OpenBracketTokens(Len(yielded))
    IN  SpaceRun(LineStart(open[Len(open)].start))

\* a pull is about to come to a newline while a bracket is open, and the
\* logical line that follows has no more leading whitespace than the line
\* on which the bracket was opened
AtInBracketDedent ==
    /\ ~prev_is_error
    /\ token_buffer = <<>>
    /\ CharAt(DispatchAt(cursor)) \in {"\n", "\r"}
    /\ OpenBracketTokens(Len(yielded)) # <<>>
    /\ LineIsLogical(DispatchAt(cursor))
    /\ LineCount(DispatchAt(cursor)) <= BracketSpaceCount

\* C31: while a bracket is open, a logical line whose leading-whitespace
\* count is not greater than the whitespace count recorded when the bracket
\* was opened yields the error InvalidInBracketDedent.
C31_InBracketDedentIsError ==
    [][AtInBracketDedent =>
          (IsErr(last') /\ last'.kind = "InvalidInBracketDedent")]_vars

-----------------------------------------------------------------------------
(* C32 *)

\* a pull is about to start at a space or a tab: a run of whitespace that
\* does not directly follow a newline (the newline arm eats the whitespace
\* that does), the run at the very start of the input included
AtMidLineSpaces ==
    /\ ~prev_is_error
    /\ token_buffer = <<>>
    /\ CharAt(cursor) \in {" ", "\t"}

\* C32: a run of spaces and tabs that does not directly follow a newline
\* produces no token and no error and leaves the indentation state
\* unchanged: the pull that starts at the run returns what a pull that
\* starts just after the run returns, with the same lexer state; the item
\* does not cover the run; and unless the pull goes on to a newline,
\* indent_kind, indent_size and indent_level are what they were.
C32_MidLineSpacesAreSkipped ==
    [][AtMidLineSpaces =>
          LET after == cursor + SpaceRun(cursor)
              r == next_token([Lexer EXCEPT !.cursor = after])
          IN  /\ last' = r.item
              /\ cursor' = r.lx.cursor
              /\ indent_kind' = r.lx.indent_kind
              /\ indent_size' = r.lx.indent_size
              /\ indent_level' = r.lx.indent_level
              /\ token_buffer' = r.lx.token_buffer
              /\ (IsOk(last') \/ IsErr(last')) => last'.start >= after
              /\ CharAt(DispatchAt(cursor)) \notin {"\n", "\r"} =>
                    /\ indent_kind' = indent_kind
                    /\ indent_size' = indent_size
                    /\ indent_level' = indent_level]_vars

\* a mixed run at the very start of the input and a run in mid-line are
\* both skipped: two identifiers, the indentation state as constructed
C32_Witness ==
    /\ code = <<" ", "\t", "a", " ", "a">>
    /\ Len(yielded) = 2
    /\ IsKind(yielded[1], "Identifier") /\ yielded[1].start = 2
    /\ IsKind(yielded[2], "Identifier") /\ yielded[2].start = 4
    /\ indent_kind = "Unknown" /\ indent_size = 0 /\ indent_level = 0

-----------------------------------------------------------------------------
(* C33 *)

\* no Indent token has been yielded so far
NoIndentYielded == CountKind("Indent", Len(yielded)) = 0

\* indent_size = 0 iff indent_kind = Unknown iff no Indent has been yielded
IndentStepAndKindTogether ==
    /\ (indent_size = 0) <=> (indent_kind = "Unknown")
    /\ (indent_size = 0) <=> NoIndentYielded

\* a pull changes the step or the kind only if it yields the first Indent,
\* and then it sets both
IndentStepAndKindSetOnce ==
    (indent_size' # indent_size \/ indent_kind' # indent_kind) =>
        /\ NoIndentYielded
        /\ IsKind(last', "Indent")
        /\ indent_size = 0 /\ indent_size' > 0
        /\ indent_kind = "Unknown" /\ indent_kind' \in {"Space", "Tab"}

\* C33: the indent step and the indent kind are set together, exactly once,
\* by the pull that yields the first Indent token, and never change
\* afterwards; at every point indent_size = 0 iff indent_kind = Unknown iff
\* no Indent has been yielded.
C33_IndentStepAndKindSetOnceTogether ==
    /\ []IndentStepAndKindTogether
    /\ [][IndentStepAndKindSetOnce]_vars

\* two Indents and a Dedent have been yielded, and the step and the kind are
\* still those of the first Indent
C33_Witness ==
    /\ Text(0, 8) = "\n a\n  a\n"
    /\ Len(yielded) = 6
    /\ IsKind(yielded[1], "Indent")
    /\ IsKind(yielded[3], "Indent")
    /\ IsKind(yielded[5], "Dedent")
    /\ indent_size = 1 /\ indent_kind = "Space"

-----------------------------------------------------------------------------
(* C34 *)

\* the number of Dedent tokens waiting in token_buffer
BufferedDedents ==
    Cardinality({i \in 1..Len(token_buffer) : IsKind(token_buffer[i], "Dedent")})

\* C34: between pulls, indent_level equals the number of Indent tokens
\* yielded so far minus the number of Dedent tokens yielded so far minus the
\* number of Dedent tokens still waiting in token_buffer, and it is never
\* negative.
C34_LevelCountsIndentsMinusDedents ==
    /\ indent_level = CountKind("Indent", Len(yielded))
                        - CountKind("Dedent", Len(yielded))
                        - BufferedDedents
    /\ indent_level >= 0

\* a drop of two levels: two Indents and one Dedent yielded, one Dedent
\* waiting in the buffer, the level already 0
C34_Witness ==
    /\ Text(0, 8) = "\n a\n  a\n"
    /\ CountKind("Indent", Len(yielded)) = 2
    /\ CountKind("Dedent", Len(yielded)) = 1
    /\ BufferedDedents = 1
    /\ indent_level = 0

-----------------------------------------------------------------------------
(* C35 *)

\* every yielded token and error has 0 <= start < end <= n, and the cursor
\* does not exceed n, the number of characters of the input
SpansAndCursorInRange ==
    /\ \A i \in 1..Len(yielded) :
          (IsOk(yielded[i]) \/ IsErr(yielded[i])) =>
              /\ 0 <= yielded[i].start
              /\ yielded[i].start < yielded[i].end
              /\ yielded[i].end <= Len(code)
    /\ cursor <= Len(code)

\* a pull never moves the cursor back; the cursor counts the characters
\* consumed: an item lexed from the input ends where the cursor stands after
\* the pull, and the stream ends without an error only with cursor = n
CursorCountsConsumed ==
    /\ cursor' >= cursor
    /\ (token_buffer = <<>> /\ (IsOk(last') \/ IsErr(last'))) => last'.end = cursor'
    /\ (token_buffer # <<>>) => cursor' = cursor
    /\ (IsEnd(last') /\ ~prev_is_error) => cursor' = Len(code)

\* C35: every yielded token and every yielded error carries a span with
\* 0 <= start < end <= n, where n is the number of characters of the input;
\* the cursor only increases, by exactly one per consumed character, and
\* never exceeds n.
C35_SpansAndCursorWithinInput ==
    /\ []SpansAndCursorInRange
    /\ [][CursorCountsConsumed]_vars

\* a literal that ends the input (its closing quote is the last character),
\* after a token and a skipped space: the last span ends at n = cursor
C35_Witness ==
    /\ Text(0, 4) = "1 ''"
    /\ Len(code) = 4
    /\ Len(yielded) = 2
    /\ IsKind(yielded[1], "Integer") /\ yielded[1].start = 0 /\ yielded[1].end = 1
    /\ IsKind(yielded[2], "Str") /\ yielded[2].start = 2 /\ yielded[2].end = 4
    /\ cursor = 4

-----------------------------------------------------------------------------
(* C36 *)

\* C36: for a function wrapped with #[backtrack(state = S)], if a call
\* returns None then S holds after the call the value it held immediately
\* before the call, whatever the body assigned to it; if the call returns
\* Some, the body's modifications of S are kept.
C36_BacktrackRestoresOnNone ==
    \A i \in 1..Len(calls) :
        calls[i].fn = "save_even" =>
            /\ calls[i].ret = OptNone =>
                  calls[i].after.value = calls[i].before.value
            /\ calls[i].ret # OptNone =>
                  calls[i].after.value = calls[i].body.value

\* save_even(4) kept the 4 that the body assigned, and save_even(3), whose
\* body assigned 3, returned None and left the 4 in place
C36_Witness ==
    /\ Len(calls) = 2
    /\ calls[1].x = 4 /\ calls[1].ret = Some(Unit)
    /\ calls[1].before.value = 2 /\ calls[1].after.value = 4
    /\ calls[2].x = 3 /\ calls[2].ret = OptNone
    /\ calls[2].body.value = 3 /\ calls[2].after.value = 4
    /\ test.value = 4

-----------------------------------------------------------------------------
(* C37 *)

\* the i-th and the j-th call were made with the same arguments and the
\* same value of the key extension
SameCall(i, j) ==
    /\ calls[i].fn = calls[j].fn
    /\ calls[i].x = calls[j].x
    /\ calls[i].before.cursor = calls[j].before.cursor

\* what tells the calls apart that were made strictly between the i-th and
\* the j-th
CalledBetween(i, j) ==
    {<<calls[m].fn, calls[m].x, calls[m].before.cursor>> : m \in (i + 1)..(j - 1)}

\* C37 as stated: in any sequence of calls, a call made with the same
\* arguments and the same value of K as an earlier call returns the value
\* that earlier call returned, without executing the function body again.
C37_RepeatedCallIsAnsweredFromCache ==
    \A i, j \in 1..Len(calls) :
        (i < j /\ SameCall(i, j)) =>
            /\ calls[j].ret = calls[i].ret
            /\ ~calls[j].ran

\* C37, amended: a call made with the same arguments and the same value of K
\* as an earlier call returns the value of the most recent such call without
\* executing the body again, provided fewer than Capacity other combinations
\* of arguments and K were called in between; otherwise the entry has been
\* evicted and the body is executed again.
C37_RepeatedCallIsAnsweredUnlessEvicted ==
    \A i, j \in 1..Len(calls) :
        (/\ i < j
         /\ SameCall(i, j)
         /\ \A m \in (i + 1)..(j - 1) : ~SameCall(i, m)) =>
            IF Cardinality(CalledBetween(i, j)) < Capacity
            THEN calls[j].ret = calls[i].ret /\ ~calls[j].ran
            ELSE calls[j].ran

\* get_random(1) at cursor 0 is answered from the cache when it is repeated
\* at once, and runs its body again after Capacity other calls
C37_Witness ==
    /\ Len(calls) = 5
    /\ calls[1].x = 1 /\ calls[1].before.cursor = 0 /\ calls[1].ran
    /\ calls[2].x = 1 /\ calls[2].before.cursor = 0 /\ ~calls[2].ran
    /\ calls[2].ret = calls[1].ret
    /\ calls[3].x = 2 /\ calls[3].before.cursor = 0 /\ calls[3].ran
    /\ calls[4].x = 1 /\ calls[4].before.cursor = 1 /\ calls[4].ran
    /\ calls[5].x = 1 /\ calls[5].before.cursor = 0 /\ calls[5].ran
    /\ calls[5].ret # calls[1].ret

-----------------------------------------------------------------------------
(* C38 *)

\* the key under which the i-th call looks its result up
KeyOfCall(i) ==
    Sha3_256(hash_input(calls[i].fn, calls[i].x, calls[i].before.cursor))

\* the i-th call is answered from the cache: its key has an entry when the
\* call is made
AnsweredFromCache(i) == Position(calls[i].before.cache, KeyOfCall(i)) # 0

\* the entries of a cache, whatever their order
EntriesOf(cache) == {cache[i] : i \in 1..Len(cache)}

\* C38: for a function wrapped with #[memoize] around #[backtrack], a call
\* answered from the cache returns the cached value without executing the
\* body and changes no state other than the cache's recency order: the
\* cache keeps its entries, and the backtracked state (the cursor, which the
\* body advances) is left at its pre-call value even when the cached result
\* is Some.
C38_CachedCallLeavesStateAlone ==
    \A i \in 1..Len(calls) :
        (calls[i].fn = "check_even" /\ AnsweredFromCache(i)) =>
            LET before == calls[i].before
                after == calls[i].after
                at == Position(before.cache, KeyOfCall(i))
            IN  /\ ~calls[i].ran
                /\ calls[i].ret = before.cache[at].value
                /\ after.cursor = before.cursor
                /\ Len(after.cache) = Len(before.cache)
                /\ EntriesOf(after.cache) = EntriesOf(before.cache)
                /\ after.cache[Len(after.cache)] = before.cache[at]

\* check_even(2) at cursor 0 runs the body, which advances the cursor to 1;
\* main puts the cursor back to 0, and the repeated call is answered from
\* the cache with the same Some value and leaves the cursor at 0
C38_Witness ==
    /\ Len(calls) = 2
    /\ calls[1].x = 2 /\ calls[1].ran /\ calls[1].ret # OptNone
    /\ calls[1].before.cursor = 0 /\ calls[1].after.cursor = 1
    /\ calls[2].x = 2 /\ ~calls[2].ran /\ calls[2].ret = calls[1].ret
    /\ calls[2].before.cursor = 0 /\ calls[2].after.cursor = 0
    /\ AnsweredFromCache(2)
    /\ test.cursor = 0

====
